-------------------------- MODULE RandomSimProofs --------------------------
(***************************************************************************)
(* Proofs about RandomSim, for every set of synchronous designs and every  *)
(* number of cycles: a cycle of the simulator is one clock of the design,  *)
(* reset comes first, "unsafe" is real, and a continued run goes on where  *)
(* the last one stopped.                                                   *)
(***************************************************************************)
EXTENDS RandomSim, TLAPS

Regs(d, t) == t.on \cap d.regs

Known == DOMAIN Design \cup {"others"}
Rows(d) == [at : Nat, regs : SUBSET d.regs, outs : [DOMAIN d.outs -> BOOLEAN]]
Tops(d) == [on : SUBSET Wires(d), prev : BOOLEAN]
Runs(d) ==
    [pc : {"idle", "loop", "save", "write"}, opt : Options, top : Tops(d), cycle : Nat,
     base : Nat, printed : Seq(Rows(d)), unsafe : BOOLEAN, by : Seq(Known)]

-----------------------------------------------------------------------------
(***************************************************************************)
(* The inductive invariant.                                                *)
(***************************************************************************)
(* The run is one of the design that is loaded: it has printed as many rows *)
(* as it has gone through cycles, the last with the registers it is in, and *)
(* is not over the cycles asked for.                                        *)
RunOK ==
    /\ run \in Runs(D)
    /\ ~Refused(run.opt)
    /\ run.cycle = Len(run.printed) /\ run.cycle <= run.opt.cycles
    /\ run.printed # <<>> => run.printed[Len(run.printed)].regs = Regs(D, run.top)
    /\ run.pc # "idle" => run.by # <<>> /\ Last(run.by) = design
    /\ run.pc = "loop" => ~run.unsafe

(* The state file is empty or that of the design it names last, and one to  *)
(* which no other design contributed is in a state of that design.          *)
Blank(f) == f.cycle = 0 /\ f.on = {} /\ DOMAIN f.width = {} /\ f.by = <<>>
Saved(f) ==
    /\ f.cycle \in Nat /\ f.by \in Seq(Known) /\ f.by # <<>>
    /\ Last(f.by) \in DOMAIN Design
    /\ f.width = Design[Last(f.by)].width
    /\ Range(f.by) = {Last(f.by)} =>
         f.on \cap Design[Last(f.by)].regs \in Reachable(Design[Last(f.by)])
FileOK ==
    \/ file.state \in {"absent", "empty"} /\ Blank(file)
    \/ file.state = "saved" /\ Saved(file)

(* A pure run is in a state of its design.                                  *)
TopReachable == run.pc # "idle" /\ Pure => Regs(D, run.top) \in Reachable(D)

IInv ==
    /\ design \in DOMAIN Design
    /\ RunOK /\ FileOK /\ TopReachable
    /\ UnsafeIsReal /\ ResetComesFirst

-----------------------------------------------------------------------------
(***************************************************************************)
(* The clock.                                                              *)
(***************************************************************************)
(* The registers reachable in a design hold those of power-up and of reset  *)
(* and are closed under clocks.                                             *)
LEMMA ReachableIsClosed ==
  ASSUME NEW d, Synchronous(d)
  PROVE  /\ d.power \in Reachable(d) /\ d.resetTo \in Reachable(d)
         /\ \A r \in Reachable(d), in \in SUBSET d.inputs : d.next[r \cup in] \in Reachable(d)
<1>1. d.power \in Reachable(d) /\ d.resetTo \in Reachable(d)
  BY DEF Synchronous, Reachable, ClosedUnderClocks
<1>2. ASSUME NEW r \in Reachable(d), NEW in \in SUBSET d.inputs
      PROVE  d.next[r \cup in] \in Reachable(d)
  <2>1. r \in SUBSET d.regs
    BY DEF Reachable
  <2>2. d.next[r \cup in] \in SUBSET d.regs
    BY <2>1 DEF Synchronous
  <2>3. ASSUME NEW S \in SUBSET SUBSET d.regs, ClosedUnderClocks(d, S)
        PROVE  d.next[r \cup in] \in S
    <3>1. r \in S
      BY <2>3 DEF Reachable
    <3>2. QED
      BY <2>3, <3>1 DEF ClosedUnderClocks
  <2>4. QED
    BY <2>2, <2>3 DEF Reachable
<1>3. QED
  BY <1>1, <1>2

(* Driving a wire, and a step with the clock low or high.                   *)
LEMMA WireOn ==
  ASSUME NEW d, NEW t \in Tops(d), NEW w \in Wires(d)
  PROVE  /\ SetWire(t, w, TRUE) \in Tops(d)
         /\ SetWire(t, w, TRUE).on = t.on \cup {w}
         /\ SetWire(t, w, TRUE).prev <=> t.prev
<1> DEFINE on == t.on \cup {w}
<1>1. on \in SUBSET Wires(d)
  BY DEF Tops
<1>2. SetWire(t, w, TRUE) = [t EXCEPT !.on = on]
  BY DEF SetWire
<1>3. SetWire(t, w, TRUE).prev = t.prev
  BY <1>2 DEF Tops
<1> HIDE DEF on
<1>4. SetWire(t, w, TRUE) \in Tops(d) /\ SetWire(t, w, TRUE).on = on
  BY <1>1, <1>2 DEF Tops
<1>5. QED
  BY <1>3, <1>4, Zenon DEF on

\* Clearing one wire of the simulated design leaves the others.
LEMMA WireOff ==
  ASSUME NEW d, NEW t \in Tops(d), NEW w \in Wires(d)
  PROVE  /\ SetWire(t, w, FALSE) \in Tops(d)
         /\ SetWire(t, w, FALSE).on = t.on \ {w}
         /\ SetWire(t, w, FALSE).prev <=> t.prev
<1> DEFINE on == t.on \ {w}
<1>1. on \in SUBSET Wires(d)
  BY DEF Tops
<1>2. SetWire(t, w, FALSE) = [t EXCEPT !.on = on]
  BY DEF SetWire
<1>3. SetWire(t, w, FALSE).prev = t.prev
  BY <1>2 DEF Tops
<1> HIDE DEF on
<1>4. SetWire(t, w, FALSE) \in Tops(d) /\ SetWire(t, w, FALSE).on = on
  BY <1>1, <1>2 DEF Tops
<1>5. QED
  BY <1>3, <1>4, Zenon DEF on

\* What one evaluation leaves in the registers, by the edge of the clock it sees.
LEMMA StepFields ==
  ASSUME NEW d, NEW t \in Tops(d)
  PROVE  /\ Clk \notin t.on => Step(d, t).on = t.on /\ ~Step(d, t).prev
         /\ Clk \in t.on /\ ~t.prev =>
              Step(d, t).on = (t.on \ d.regs) \cup Clocked(d, t)
         /\ Step(d, t).prev \in BOOLEAN
         /\ Step(d, t).on \in SUBSET Wires(d) => Step(d, t) \in Tops(d)
<1> DEFINE on == IF Clk \in t.on /\ ~t.prev THEN (t.on \ d.regs) \cup Clocked(d, t) ELSE t.on
           prev == Clk \in t.on
<1>1. Step(d, t) = [on |-> on, prev |-> prev]
  BY Zenon DEF Step
<1>2. /\ Clk \notin t.on => on = t.on /\ ~prev
      /\ Clk \in t.on /\ ~t.prev => on = (t.on \ d.regs) \cup Clocked(d, t)
      /\ prev \in BOOLEAN
  OBVIOUS
<1> HIDE DEF on, prev
<1>3. Step(d, t).on = on /\ Step(d, t).prev = prev
  BY <1>1
<1>4. Step(d, t).on \in SUBSET Wires(d) => Step(d, t) \in Tops(d)
  BY <1>1, <1>2 DEF Tops
<1>5. QED
  BY <1>2, <1>3, <1>4, Zenon

(* With the clock low a step changes nothing but the clock.                 *)
LEMMA LowKeeps ==
  ASSUME NEW d, NEW t \in Tops(d)
  PROVE  /\ Low(t, d) \in Tops(d)
         /\ Low(t, d).on = t.on \ {Clk} /\ ~Low(t, d).prev
<1> DEFINE u == SetWire(t, Clk, FALSE)
<1>1. u \in Tops(d) /\ u.on = t.on \ {Clk}
  BY WireOff DEF Wires
<1> HIDE DEF u
<1>2. Step(d, u).on = t.on \ {Clk} /\ ~Step(d, u).prev /\ Step(d, u).prev \in BOOLEAN
  BY <1>1, StepFields
<1>3. Step(d, u) \in Tops(d)
  BY <1>1, <1>2, StepFields DEF Tops
<1>4. QED
  BY <1>2, <1>3 DEF Low, u

(* With the clock high after that, the registers take what reset or next    *)
(* gives, and the inputs stay.                                              *)
LEMMA HighClocks ==
  ASSUME NEW d, Synchronous(d), NEW t \in Tops(d), ~t.prev
  PROVE  /\ High(t, d) \in Tops(d)
         /\ High(t, d).on \cap d.inputs = t.on \cap d.inputs
         /\ Regs(d, High(t, d)) =
              IF InReset(d, t) THEN d.resetTo ELSE d.next[t.on \cap (d.regs \cup d.inputs)]
<1> DEFINE u == SetWire(t, Clk, TRUE)
           c == IF InReset(d, t) THEN d.resetTo ELSE d.next[t.on \cap (d.regs \cup d.inputs)]
<1>1. u \in Tops(d) /\ u.on = t.on \cup {Clk} /\ ~u.prev
  BY WireOn DEF Wires
<1> HIDE DEF u
<1>2. /\ u.on \cap (d.regs \cup d.inputs) = t.on \cap (d.regs \cup d.inputs)
      /\ d.reset \in u.on <=> d.reset \in t.on
  BY <1>1 DEF Synchronous
<1>3. Clocked(d, u) = c
  BY <1>2 DEF Clocked, InReset
<1>4. c \in SUBSET d.regs
  <2>1. t.on \cap (d.regs \cup d.inputs) \in SUBSET (d.regs \cup d.inputs)
    OBVIOUS
  <2>2. QED
    BY <2>1 DEF Synchronous
<1> HIDE DEF c
<1> DEFINE on == ((t.on \cup {Clk}) \ d.regs) \cup c
<1>5. Step(d, u).on = on /\ Step(d, u).prev \in BOOLEAN
  BY <1>1, <1>3, StepFields
<1>6. on \in SUBSET Wires(d) /\ on \cap d.inputs = t.on \cap d.inputs /\ on \cap d.regs = c
  <2>1. t.on \in SUBSET Wires(d)
    BY DEF Tops
  <2>2. QED
    BY <1>4, <2>1 DEF Wires, Synchronous
<1> HIDE DEF on
<1>7. Step(d, u) \in Tops(d)
  BY <1>1, <1>5, <1>6, StepFields
<1>8. QED
  BY <1>5, <1>6, <1>7 DEF High, u, c, Regs

(* A cycle of any design, of which CycleOf is that of the one loaded.       *)
ClockOf(d, t, o, cycle, in) ==
    High(SetInputs(DriveReset(Low(t, d), d, o, cycle), Drives(d, o, cycle), in), d)

(* u can be t after a cycle: t is reset, which for a run with -RST is so in *)
(* the first cycle alone, or clocked under some input, which u still has.   *)
IsClock(d, t, o, cycle, u) ==
    \E x \in SUBSET d.inputs :
        /\ u.on \cap (d.regs \cup d.inputs) = Regs(d, u) \cup x
        /\ \/ Regs(d, u) = d.resetTo /\ (o.reset => cycle = 0)
           \/ Regs(d, u) = d.next[Regs(d, t) \cup x] /\ (o.reset => cycle # 0)

(* One cycle of the loop is one clock of the design.                        *)
LEMMA CycleIsClock ==
  ASSUME NEW d, Synchronous(d), NEW t \in Tops(d), NEW o \in Options, ~Refused(o),
         NEW cycle \in Nat, NEW in \in SUBSET Drives(d, o, cycle)
  PROVE  /\ ClockOf(d, t, o, cycle, in) \in Tops(d)
         /\ IsClock(d, t, o, cycle, ClockOf(d, t, o, cycle, in))
<1> DEFINE w == Drives(d, o, cycle)
           a == DriveReset(Low(t, d), d, o, cycle)
           b == SetInputs(a, w, in)
           u == High(b, d)
           x == b.on \cap d.inputs
<1>1. /\ w \in SUBSET (d.inputs \cup {d.reset})
      /\ o.reset => d.reset \notin w
  BY DEF Drives, Driven, ResetNames
<1>2. /\ a \in Tops(d) /\ ~a.prev
      /\ Regs(d, a) = Regs(d, t)
      /\ o.reset => (d.reset \in a.on <=> (cycle = 0 <=> d.high))
  <2> DEFINE low == Low(t, d)
  <2>1. low \in Tops(d) /\ low.on = t.on \ {Clk} /\ ~low.prev
    BY LowKeeps
  <2>2. Regs(d, low) = Regs(d, t)
    BY <2>1 DEF Synchronous, Regs
  <2> HIDE DEF low
  <2>3. CASE o.reset
    <3> DEFINE yes == cycle = 0 <=> d.high
    <3>1. a = SetWire(low, d.reset, yes) /\ yes \in BOOLEAN /\ d.reset \in Wires(d)
      BY <2>3 DEF DriveReset, Wires, low
    <3> HIDE DEF yes, a
    <3>2. /\ a \in Tops(d) /\ ~a.prev
          /\ a.on = IF yes THEN low.on \cup {d.reset} ELSE low.on \ {d.reset}
      <4>1. CASE yes = TRUE
        <5>1. a = SetWire(low, d.reset, TRUE) /\ d.reset \in Wires(d)
          BY <3>1, <4>1, Zenon
        <5>2. /\ SetWire(low, d.reset, TRUE) \in Tops(d)
              /\ SetWire(low, d.reset, TRUE).on = low.on \cup {d.reset}
              /\ SetWire(low, d.reset, TRUE).prev <=> low.prev
          BY <2>1, <3>1, WireOn
        <5>3. QED
          BY <2>1, <4>1, <5>1, <5>2, Zenon
      <4>2. CASE yes = FALSE
        <5>1. a = SetWire(low, d.reset, FALSE) /\ d.reset \in Wires(d)
          BY <3>1, <4>2, Zenon
        <5>2. /\ SetWire(low, d.reset, FALSE) \in Tops(d)
              /\ SetWire(low, d.reset, FALSE).on = low.on \ {d.reset}
              /\ SetWire(low, d.reset, FALSE).prev <=> low.prev
          BY <2>1, <3>1, WireOff
        <5>3. QED
          BY <2>1, <4>2, <5>1, <5>2, Zenon
      <4>3. QED
        BY <3>1, <4>1, <4>2
    <3>3. Regs(d, a) = Regs(d, low)
      BY <3>2 DEF Synchronous, Regs
    <3>4. d.reset \in a.on <=> yes
      BY <3>2
    <3>5. QED
      BY <2>2, <3>2, <3>3, <3>4 DEF yes
  <2>4. CASE ~o.reset
    BY <2>1, <2>2, <2>4 DEF DriveReset, low
  <2>5. QED
    BY <2>3, <2>4
<1> HIDE DEF a
<1>3. /\ b \in Tops(d) /\ ~b.prev
      /\ b.on = (a.on \ w) \cup in
  <2>1. (a.on \ w) \cup in \in SUBSET Wires(d)
    BY <1>1, <1>2 DEF Tops, Wires
  <2>2. b = [a EXCEPT !.on = (a.on \ w) \cup in]
    BY DEF SetInputs
  <2>3. QED
    BY <1>2, <2>1, <2>2 DEF Tops
<1> HIDE DEF b
<1>4. /\ b.on \cap d.regs = Regs(d, t)
      /\ o.reset => (d.reset \in b.on <=> (cycle = 0 <=> d.high))
  <2>1. in \in SUBSET w /\ w \cap d.regs = {}
    BY <1>1 DEF Synchronous
  <2>2. b.on \cap d.regs = a.on \cap d.regs
    BY <1>3, <2>1
  <2>3. o.reset => (d.reset \in b.on <=> d.reset \in a.on)
    BY <1>1, <1>3, <2>1
  <2>4. QED
    BY <1>2, <2>2, <2>3 DEF Regs
<1>5. o.reset => (InReset(d, b) <=> cycle = 0)
  BY <1>4 DEF InReset
<1>6. /\ u \in Tops(d) /\ u.on \cap d.inputs = x
      /\ Regs(d, u) = IF InReset(d, b) THEN d.resetTo ELSE d.next[b.on \cap (d.regs \cup d.inputs)]
  BY <1>3, HighClocks
<1>7. b.on \cap (d.regs \cup d.inputs) = Regs(d, t) \cup x
  BY <1>4
<1>8. u.on \cap (d.regs \cup d.inputs) = Regs(d, u) \cup x
  BY <1>6 DEF Regs
<1>9. \/ Regs(d, u) = d.resetTo /\ (o.reset => cycle = 0)
      \/ Regs(d, u) = d.next[Regs(d, t) \cup x] /\ (o.reset => cycle # 0)
  <2>1. CASE InReset(d, b)
    BY <1>5, <1>6, <2>1
  <2>2. CASE ~InReset(d, b)
    BY <1>5, <1>6, <1>7, <2>2
  <2>3. QED
    BY <2>1, <2>2
<1>10. x \in SUBSET d.inputs
  OBVIOUS
<1> HIDE DEF u, x
<1>11. u \in Tops(d) /\ IsClock(d, t, o, cycle, u)
  BY <1>6, <1>8, <1>9, <1>10 DEF IsClock
<1>12. QED
  BY <1>11 DEF ClockOf, u, b, a

-----------------------------------------------------------------------------
(***************************************************************************)
(* What the steps of the simulator do to the run.                          *)
(***************************************************************************)
(* The run before there is one is a run of any design.                      *)
LEMMA NoRunFields ==
  ASSUME NEW d
  PROVE  /\ NoRun \in Runs(d) /\ NoRun.pc = "idle" /\ NoRun.opt = NoOptions
         /\ NoOptions \in Options /\ ~Refused(NoOptions) /\ NoOptions.cycles = 0
         /\ NoRun.cycle = 0 /\ NoRun.base = 0 /\ NoRun.printed = <<>>
         /\ NoRun.by = <<>> /\ NoRun.unsafe = FALSE /\ Len(NoRun.printed) = 0
<1>1. PICK e : /\ e = <<>>
               /\ NoRun = [pc |-> "idle", opt |-> NoOptions, top |-> [on |-> {}, prev |-> FALSE],
                           cycle |-> 0, base |-> 0, printed |-> e, unsafe |-> FALSE, by |-> e]
  BY Zenon DEF NoRun
<1>2. NoOptions \in Options /\ NoOptions.cycles = 0 /\ ~Refused(NoOptions)
  BY RandomSimAssumption DEF NoOptions, Options, Refused
<1>3. [on |-> {}, prev |-> FALSE] \in Tops(d)
  BY DEF Tops
<1>4. e \in Seq(Rows(d)) /\ e \in Seq(Known)
  BY <1>1
<1>5. NoRun \in Runs(d)
  <2> HIDE DEF Known, NoOptions, Options
  <2>1. QED
    BY <1>1, <1>2, <1>3, <1>4 DEF Runs
<1>6. QED
  BY <1>1, <1>2, <1>5

\* The numbers of the state between runs.
LEMMA NoRunNumbers ==
  /\ NoRun.cycle = Len(NoRun.printed)
  /\ NoRun.cycle <= NoRun.opt.cycles
<1>1. NoRun.cycle = 0 /\ Len(NoRun.printed) = 0 /\ NoRun.opt.cycles = 0
  BY NoRunFields, Zenon
<1>2. QED
  BY <1>1

(* Nothing is printed, or nothing more: what is said of the rows stays.     *)
LEMMA NoRows ==
  ASSUME run'.printed = <<>>
  PROVE  ResetComesFirst' /\ (~run'.unsafe => UnsafeIsReal')
BY DEF UnsafeIsReal, ResetComesFirst, ShownAt, RowsAreReal, RowsFromReset

\* A step that prints no row keeps what is said of the rows.
LEMMA SameRows ==
  ASSUME UnsafeIsReal, ResetComesFirst, UNCHANGED <<design, safe>>,
         run'.printed = run.printed, run'.unsafe = run.unsafe,
         run'.opt = run.opt, run'.by = run.by
  PROVE  UnsafeIsReal' /\ ResetComesFirst' /\ (Pure' <=> Pure)
<1>1. D' = D /\ design' = design /\ safe' = safe
  BY DEF D
<1>2. Pure' <=> Pure
  BY <1>1 DEF Pure
<1>3. ResetComesFirst'
  BY <1>1 DEF ResetComesFirst
<1>4. UnsafeIsReal'
  BY <1>1, <1>2 DEF UnsafeIsReal
<1>5. QED
  BY <1>2, <1>3, <1>4

(* The design that is loaded is one of the designs.                         *)
LEMMA LoadedDesign ==
  ASSUME design \in DOMAIN Design
  PROVE  Synchronous(D) /\ design \in Known /\ design # "others"
BY DesignAssumption DEF D, Known

(* What one cycle leaves: a row with the registers after it and the outputs *)
(* they give under some input.                                              *)
LEMMA CycleTop ==
  ASSUME IInv, Cycle
  PROVE  \E t \in Tops(D), x \in SUBSET D.inputs :
            /\ run' = AfterCycle(t, Outputs(D, t))
            /\ Outputs(D, t) \in [DOMAIN D.outs -> BOOLEAN]
            /\ Outputs(D, t) = OutputsOf(D, Regs(D, t) \cup x)
            /\ \/ Regs(D, t) = D.resetTo /\ (run.opt.reset => run.cycle = 0)
               \/ Regs(D, t) = D.next[Regs(D, run.top) \cup x] /\ (run.opt.reset => run.cycle # 0)
<1>1. Synchronous(D) /\ run \in Runs(D) /\ ~Refused(run.opt)
  BY LoadedDesign DEF IInv, RunOK
<1>2. run.top \in Tops(D) /\ run.opt \in Options /\ run.cycle \in Nat
  BY <1>1 DEF Runs
<1>3. PICK in \in SUBSET Drives(D, run.opt, run.cycle) :
         run' = AfterCycle(CycleOf(run.top, in), Outputs(D, CycleOf(run.top, in)))
  BY DEF Cycle
<1> DEFINE t == CycleOf(run.top, in)
<1>4. t \in Tops(D) /\ IsClock(D, run.top, run.opt, run.cycle, t)
  <2>1. t = ClockOf(D, run.top, run.opt, run.cycle, in)
    BY DEF CycleOf, ClockOf
  <2> HIDE DEF t, D
  <2>2. QED
    BY <1>1, <1>2, <2>1, CycleIsClock
<1>5. PICK x \in SUBSET D.inputs :
         /\ t.on \cap (D.regs \cup D.inputs) = Regs(D, t) \cup x
         /\ \/ Regs(D, t) = D.resetTo /\ (run.opt.reset => run.cycle = 0)
            \/ Regs(D, t) = D.next[Regs(D, run.top) \cup x] /\ (run.opt.reset => run.cycle # 0)
  BY <1>4 DEF IsClock
<1> HIDE DEF t
<1>6. Outputs(D, t) = OutputsOf(D, Regs(D, t) \cup x)
  BY <1>5 DEF Outputs
<1>7. Outputs(D, t) \in [DOMAIN D.outs -> BOOLEAN]
  <2>1. Regs(D, t) \cup x \in SUBSET (D.regs \cup D.inputs)
    BY DEF Regs
  <2>2. D.outs \in Seq([SUBSET (D.regs \cup D.inputs) -> BOOLEAN])
    BY <1>1 DEF Synchronous
  <2>3. ASSUME NEW i \in DOMAIN D.outs PROVE D.outs[i][Regs(D, t) \cup x] \in BOOLEAN
    BY <2>1, <2>2
  <2>4. QED
    BY <1>6, <2>3 DEF OutputsOf
<1>8. QED
  BY <1>3, <1>4, <1>5, <1>6, <1>7 DEF t

\* The fields of the run after one cycle.
LEMMA AfterCycleFields ==
  ASSUME run \in Runs(D), NEW t \in Tops(D), NEW outs \in [DOMAIN D.outs -> BOOLEAN]
  PROVE  LET r   == AfterCycle(t, outs)
             row == [at |-> run.base + run.cycle + 1, regs |-> Regs(D, t), outs |-> outs]
         IN  /\ r \in Runs(D) /\ row \in Rows(D)
             /\ r.top = t /\ r.opt = run.opt /\ r.by = run.by /\ r.base = run.base
             /\ r.cycle = run.cycle + 1 /\ r.printed = Append(run.printed, row)
             /\ r.unsafe <=> IsUnsafe(outs)
             /\ r.pc = IF IsUnsafe(outs) THEN "save" ELSE "loop"
<1> DEFINE bad == IsUnsafe(outs)
           row == [at |-> run.base + run.cycle + 1, regs |-> Regs(D, t), outs |-> outs]
           pc  == IF bad THEN "save" ELSE "loop"
           r   == AfterCycle(t, outs)
<1>1. row \in Rows(D)
  BY DEF Rows, Runs, Regs
<1>2. bad \in BOOLEAN /\ pc \in {"idle", "loop", "save", "write"}
  BY DEF IsUnsafe
<1>3. r = [run EXCEPT !.top = t, !.unsafe = bad, !.cycle = @ + 1, !.pc = pc,
                      !.printed = Append(@, row)]
  BY Zenon DEF AfterCycle, Regs
<1> HIDE DEF row, pc, bad, r
<1>4. Append(run.printed, row) \in Seq(Rows(D)) /\ run.cycle + 1 \in Nat
  BY <1>1 DEF Runs
<1>5. r \in Runs(D)
  BY <1>2, <1>3, <1>4 DEF Runs
<1>6. /\ r.top = t /\ r.opt = run.opt /\ r.by = run.by /\ r.base = run.base
      /\ r.cycle = run.cycle + 1 /\ r.printed = Append(run.printed, row)
      /\ r.pc = pc /\ r.unsafe = bad
  BY <1>3 DEF Runs
<1>7. r.unsafe <=> bad
  BY <1>6, Zenon
<1>8. QED
  BY <1>1, <1>5, <1>6, <1>7 DEF row, pc, bad, r

-----------------------------------------------------------------------------
(***************************************************************************)
(* The invariant is inductive.                                             *)
(***************************************************************************)
(* A cycle adds a row: what is said of the rows is said of one more.        *)
LEMMA CycleKeeps ==
  ASSUME IInv, Cycle
  PROVE  RunOK' /\ TopReachable' /\ UnsafeIsReal' /\ ResetComesFirst'
<1>1. PICK t \in Tops(D), x \in SUBSET D.inputs :
         /\ run' = AfterCycle(t, Outputs(D, t))
         /\ Outputs(D, t) \in [DOMAIN D.outs -> BOOLEAN]
         /\ Outputs(D, t) = OutputsOf(D, Regs(D, t) \cup x)
         /\ \/ Regs(D, t) = D.resetTo /\ (run.opt.reset => run.cycle = 0)
            \/ Regs(D, t) = D.next[Regs(D, run.top) \cup x] /\ (run.opt.reset => run.cycle # 0)
  BY CycleTop
<1> DEFINE outs == Outputs(D, t)
           row  == [at |-> run.base + run.cycle + 1, regs |-> Regs(D, t), outs |-> outs]
           n    == Len(run.printed)
<1>2. /\ UNCHANGED <<design, safe>> /\ D' = D
      /\ run.pc = "loop" /\ run.cycle < run.opt.cycles
  BY DEF Cycle, D
<1>3. /\ Synchronous(D) /\ run \in Runs(D) /\ ~Refused(run.opt)
      /\ run.cycle = n /\ n \in Nat /\ ~run.unsafe
      /\ run.by # <<>> /\ Last(run.by) = design
      /\ n # 0 => run.printed[n].regs = Regs(D, run.top)
  BY <1>2, LoadedDesign DEF IInv, RunOK, Runs
<1>4. /\ run' \in Runs(D) /\ row \in Rows(D)
      /\ run'.top = t /\ run'.opt = run.opt /\ run'.by = run.by
      /\ run'.cycle = n + 1 /\ run'.printed = Append(run.printed, row)
      /\ run'.unsafe <=> IsUnsafe(outs)
      /\ run'.pc = IF IsUnsafe(outs) THEN "save" ELSE "loop"
  BY <1>1, <1>3, AfterCycleFields
<1>5. row.regs = Regs(D, t) /\ row.outs = outs
  OBVIOUS
<1> HIDE DEF row, outs
<1> DEFINE rows == Append(run.printed, row)
<1>6. /\ run.printed \in Seq(Rows(D))
      /\ Len(rows) = n + 1 /\ DOMAIN rows = 1 .. n + 1 /\ rows[n + 1] = row
      /\ \A k \in 1 .. n : rows[k] = run.printed[k]
  BY <1>3, <1>4 DEF Runs
<1> HIDE DEF rows
<1>7. RunOK'
  <2>1. run' \in Runs(D') /\ ~Refused(run'.opt)
    BY <1>2, <1>3, <1>4
  <2>2. run'.cycle = Len(run'.printed) /\ run'.cycle <= run'.opt.cycles
    <3>1. run.opt.cycles \in Nat
      BY <1>3, RandomSimAssumption DEF Runs, Options
    <3>2. QED
      BY <1>2, <1>3, <1>4, <1>6, <3>1 DEF rows
  <2>3. run'.printed[Len(run'.printed)].regs = Regs(D', run'.top)
    BY <1>2, <1>4, <1>5, <1>6 DEF rows
  <2>4. run'.by # <<>> /\ Last(run'.by) = design'
    BY <1>2, <1>3, <1>4 DEF Last
  <2>5. run'.pc = "loop" => ~run'.unsafe
    BY <1>4
  <2>6. QED
    BY <2>1, <2>2, <2>3, <2>4, <2>5 DEF RunOK
<1>8. Pure => Regs(D, t) \in Reachable(D)
  <2>1. Pure => Regs(D, run.top) \in Reachable(D)
    BY <1>2 DEF IInv, TopReachable
  <2>2. QED
    BY <1>1, <1>3, <2>1, ReachableIsClosed
<1>9. Pure' <=> Pure
  BY <1>2, <1>4 DEF Pure
<1>10. TopReachable'
  BY <1>2, <1>4, <1>8, <1>9 DEF TopReachable
<1>11. RowsAreReal(D, run.printed) /\ Regs(D, t) \in Reachable(D) => RowsAreReal(D, rows)
  <2> SUFFICES ASSUME RowsAreReal(D, run.printed), Regs(D, t) \in Reachable(D),
                      NEW k \in DOMAIN rows
               PROVE  RowIsReal(D, rows[k])
    BY DEF RowsAreReal
  <2>1. RowIsReal(D, row)
    BY <1>1, <1>5 DEF RowIsReal, outs
  <2>2. CASE k = n + 1
    BY <1>6, <2>1, <2>2
  <2>3. CASE k # n + 1
    <3>1. k \in DOMAIN run.printed /\ rows[k] = run.printed[k]
      BY <1>3, <1>6, <2>3
    <3>2. QED
      BY <3>1 DEF RowsAreReal
  <2>4. QED
    BY <2>2, <2>3
<1>12. ShownAt(D, rows, safe) = IF IsUnsafe(outs) THEN {n + 1} ELSE {}
  <2>1. ShownAt(D, run.printed, safe) = {}
    BY <1>3 DEF IInv, UnsafeIsReal
  <2>2. \A k \in 1 .. n : k \notin ShownAt(D, rows, safe)
    BY <1>6, <2>1 DEF ShownAt
  <2>3. n + 1 \in ShownAt(D, rows, safe) <=> IsUnsafe(outs)
    <3>1. rows[n + 1].outs = outs /\ n + 1 \in DOMAIN rows
      BY <1>3, <1>5, <1>6
    <3>2. DOMAIN outs = DOMAIN D.outs
      BY DEF outs, Outputs, OutputsOf
    <3>3. n + 1 \in ShownAt(D, rows, safe)
            <=> safe + 1 \in DOMAIN D.outs /\ rows[n + 1].outs[safe + 1]
      BY <3>1 DEF ShownAt
    <3>4. QED
      BY <3>1, <3>2, <3>3, Zenon DEF IsUnsafe
  <2>4. ShownAt(D, rows, safe) \subseteq 1 .. n + 1
    BY <1>6 DEF ShownAt
  <2>5. ShownAt(D, rows, safe) \subseteq {n + 1}
    BY <1>3, <2>2, <2>4
  <2>6. QED
    BY <2>3, <2>5
<1>13. UnsafeIsReal'
  <2>1. ShownAt(D', run'.printed, safe') = IF run'.unsafe THEN {Len(run'.printed)} ELSE {}
    BY <1>2, <1>4, <1>6, <1>12 DEF rows
  <2>2. Pure => RowsAreReal(D, rows)
    BY <1>8, <1>11 DEF IInv, UnsafeIsReal
  <2>3. Pure' => RowsAreReal(D', run'.printed)
    BY <1>2, <1>4, <1>9, <2>2 DEF rows
  <2>4. QED
    BY <2>1, <2>3 DEF UnsafeIsReal
<1>14. ResetComesFirst'
  <2>1. SUFFICES ASSUME run.opt.reset PROVE RowsFromReset(D, rows)
    BY <1>2, <1>4 DEF ResetComesFirst, rows
  <2> SUFFICES ASSUME NEW k \in DOMAIN rows
               PROVE  IF k = 1 THEN rows[k].regs = D.resetTo
                      ELSE \E in \in SUBSET D.inputs :
                             rows[k].regs = D.next[rows[k - 1].regs \cup in]
    BY DEF RowsFromReset
  <2>2. RowsFromReset(D, run.printed)
    BY <2>1 DEF IInv, ResetComesFirst
  <2>3. CASE k \in 1 .. n
    <3>1. rows[k] = run.printed[k] /\ k \in DOMAIN run.printed
      BY <1>6, <2>3
    <3>2. CASE k = 1
      BY <2>2, <3>1, <3>2 DEF RowsFromReset
    <3>3. CASE k # 1
      <4>1. k - 1 \in 1 .. n
        BY <1>3, <2>3, <3>3
      <4>2. rows[k - 1] = run.printed[k - 1]
        BY <1>6, <4>1
      <4>3. \E in \in SUBSET D.inputs : run.printed[k].regs = D.next[run.printed[k - 1].regs \cup in]
        BY <2>2, <3>1, <3>3 DEF RowsFromReset
      <4>4. QED
        BY <3>1, <3>3, <4>2, <4>3
    <3>4. QED
      BY <3>2, <3>3
  <2>4. CASE k = 1 /\ n = 0
    BY <1>1, <1>3, <1>5, <1>6, <2>1, <2>4
  <2>5. CASE k = n + 1 /\ n # 0
    <3>1. k # 1 /\ k - 1 = n /\ n \in 1 .. n
      BY <1>3, <2>5
    <3>2. rows[k - 1].regs = Regs(D, run.top)
      BY <1>3, <1>6, <2>5, <3>1
    <3>3. rows[k].regs = Regs(D, t)
      BY <1>5, <1>6, <2>5
    <3>4. Regs(D, t) = D.next[Regs(D, run.top) \cup x]
      BY <1>1, <1>3, <2>1, <2>5
    <3>5. QED
      BY <3>1, <3>2, <3>3, <3>4
  <2>6. k \in 1 .. n \/ (k = 1 /\ n = 0) \/ (k = n + 1 /\ n # 0)
    BY <1>3, <1>6
  <2>7. QED
    BY <2>3, <2>4, <2>5, <2>6
<1>15. QED
  BY <1>7, <1>10, <1>13, <1>14

\* The fields of the log file before anything is written.
LEMMA NoFileFields ==
  /\ NoFile.state = "absent" /\ Blank(NoFile)
  /\ EmptyFile.state = "empty" /\ Blank(EmptyFile)
<1>1. PICK e : e = <<>> /\ NoFile = [state |-> "absent", cycle |-> 0, on |-> {}, width |-> e, by |-> e]
  BY Zenon DEF NoFile
<1>2. DOMAIN e = {}
  BY <1>1
<1>3. NoFile.state = "absent" /\ Blank(NoFile)
  BY <1>1, <1>2 DEF Blank
<1>4. EmptyFile.state = "empty" /\ Blank(EmptyFile)
  BY <1>1, <1>2 DEF EmptyFile, Blank
<1>5. QED
  BY <1>3, <1>4

(* The designs that contributed to a state, with one more.                  *)
LEMMA RangeAppend ==
  ASSUME NEW S, NEW s \in Seq(S), NEW x \in S
  PROVE  /\ Append(s, x) \in Seq(S) /\ Append(s, x) # <<>> /\ Last(Append(s, x)) = x
         /\ Range(Append(s, x)) = Range(s) \cup {x}
         /\ s # <<>> => Last(s) \in Range(s)
<1>1. /\ Append(s, x) \in Seq(S) /\ DOMAIN Append(s, x) = 1 .. Len(s) + 1
      /\ Append(s, x)[Len(s) + 1] = x /\ Len(Append(s, x)) = Len(s) + 1
      /\ \A i \in 1 .. Len(s) : Append(s, x)[i] = s[i]
      /\ DOMAIN s = 1 .. Len(s) /\ Len(s) \in Nat
  OBVIOUS
<1>2. Range(Append(s, x)) \subseteq Range(s) \cup {x}
  BY <1>1 DEF Range
<1>3. Range(s) \cup {x} \subseteq Range(Append(s, x))
  <2>1. x \in Range(Append(s, x))
    <3>1. Len(s) + 1 \in DOMAIN Append(s, x)
      BY <1>1
    <3>2. QED
      BY <1>1, <3>1 DEF Range
  <2>2. ASSUME NEW y \in Range(s) PROVE y \in Range(Append(s, x))
    <3>1. PICK i \in 1 .. Len(s) : y = s[i]
      BY <1>1 DEF Range
    <3>2. i \in DOMAIN Append(s, x) /\ Append(s, x)[i] = y
      BY <1>1, <3>1
    <3>3. QED
      BY <3>2 DEF Range
  <2>3. QED
    BY <2>1, <2>2
<1>4. s # <<>> => Last(s) \in Range(s)
  BY <1>1 DEF Last, Range
<1>5. QED
  BY <1>1, <1>2, <1>3, <1>4 DEF Last

(* What the file says of them: the last, and whether there was another.     *)
LEMMA OnlyFields ==
  ASSUME NEW by \in Seq(Known), by # <<>>, Last(by) \in DOMAIN Design
  PROVE  /\ Only(by) \in Seq(Known) /\ Only(by) # <<>> /\ Last(Only(by)) = Last(by)
         /\ Range(Only(by)) = {Last(by)} => Range(by) = {Last(by)}
<1> DEFINE x == Last(by)
<1>1. x \in Known /\ "others" \in Known /\ x # "others"
  BY DesignAssumption DEF Known
<1> HIDE DEF x
<1>2. /\ <<x>> \in Seq(Known) /\ <<x>> # <<>> /\ Last(<<x>>) = x
      /\ <<"others", x>> \in Seq(Known) /\ <<"others", x>> # <<>> /\ Last(<<"others", x>>) = x
  BY <1>1 DEF Last
<1>3. "others" \in Range(<<"others", x>>)
  BY DEF Range
<1>4. Only(by) = IF Range(by) = {x} THEN <<x>> ELSE <<"others", x>>
  BY DEF Only, x
<1>5. QED
  BY <1>1, <1>2, <1>3, <1>4 DEF x

(* Where a run starts: at power-up, or for -Continue in the registers the   *)
(* file has of the design.                                                  *)
LEMMA StartingTop ==
  ASSUME IInv, NEW o \in Options
  PROVE  /\ Starting(D, o, file) \in Tops(D)
         /\ ~o.continue \/ Blank(file) => Regs(D, Starting(D, o, file)) = D.power
         /\ o.continue /\ Saved(file) /\ Last(file.by) = design =>
              Regs(D, Starting(D, o, file)) = file.on \cap D.regs
<1>1. Synchronous(D)
  BY LoadedDesign DEF IInv
<1> DEFINE p == PowerUp(D)
<1>2. p \in Tops(D) /\ p.on = D.power /\ Regs(D, p) = D.power /\ Clk \notin p.on
  BY <1>1 DEF PowerUp, Tops, Wires, Synchronous, Regs
<1>3. CASE ~o.continue
  <2>1. Starting(D, o, file) = Step(D, p)
    BY <1>3 DEF Starting
  <2>2. Step(D, p).on = p.on /\ Step(D, p) \in Tops(D)
    <3> HIDE DEF p
    <3>1. Step(D, p).on = p.on
      BY <1>2, StepFields
    <3>2. p.on \in SUBSET Wires(D)
      BY <1>2 DEF Tops
    <3>3. QED
      BY <1>2, <3>1, <3>2, StepFields
  <2>3. QED
    BY <1>2, <1>3, <2>1, <2>2 DEF Regs
<1>4. CASE o.continue
  <2> DEFINE F  == Found(D, file)
             on == (D.power \ F) \cup (file.on \cap F)
  <2>1. F \in SUBSET Wires(D)
    BY DEF Found
  <2>2. on \in SUBSET Wires(D)
    BY <1>1, <2>1 DEF Synchronous, Wires
  <2>3. Starting(D, o, file) = [p EXCEPT !.on = on]
    BY <1>2, <1>4 DEF Starting, Loaded, PowerUp
  <2>4. Starting(D, o, file) \in Tops(D) /\ Starting(D, o, file).on = on
    <3> HIDE DEF on, p
    <3>1. QED
      BY <1>2, <2>2, <2>3 DEF Tops
  <2>5. Blank(file) => F = {}
    BY DEF Blank, Found
  <2>6. Saved(file) /\ Last(file.by) = design => F = Wires(D)
    BY <1>1 DEF Saved, Found, Synchronous, D
  <2>7. Blank(file) => on \cap D.regs = D.power
    BY <1>1, <2>5 DEF Synchronous
  <2>8. Saved(file) /\ Last(file.by) = design => on \cap D.regs = file.on \cap D.regs
    BY <1>1, <2>6 DEF Synchronous, Wires
  <2>9. QED
    BY <1>4, <2>4, <2>7, <2>8 DEF Regs
<1>5. QED
  BY <1>3, <1>4

(* No run, or a run that has only begun, is in order.                       *)
LEMMA NoRunKeeps ==
  ASSUME run' = NoRun, design' \in DOMAIN Design
  PROVE  RunOK' /\ TopReachable' /\ UnsafeIsReal' /\ ResetComesFirst'
<1>1. RunOK'
  <2>1. run' \in Runs(D') /\ ~Refused(run'.opt) /\ run'.pc = "idle" /\ run'.printed = <<>>
    BY NoRunFields
  <2>2. run'.cycle = Len(run'.printed) /\ run'.cycle <= run'.opt.cycles
    BY NoRunNumbers, Zenon
  <2>3. QED
    BY <2>1, <2>2, Zenon DEF RunOK
<1>2. TopReachable'
  BY NoRunFields DEF TopReachable
<1>3. run'.printed = <<>> /\ ~run'.unsafe
  BY NoRunFields
<1>4. QED
  BY <1>1, <1>2, <1>3, NoRows

\* RandomSim starts with a reset design and no rows.
LEMMA BeginKeeps ==
  ASSUME IInv, RandomSim
  PROVE  RunOK' /\ TopReachable' /\ UnsafeIsReal' /\ ResetComesFirst'
<1>1. PICK o \in Options :
        /\ ~Refused(o)
        /\ run' = [NoRun EXCEPT !.pc = "loop", !.opt = o, !.top = Starting(D, o, file),
                                !.base = IF o.continue THEN file.cycle ELSE 0,
                                !.by = Append(IF o.continue THEN file.by ELSE <<>>, design)]
  BY DEF RandomSim
<1>2. UNCHANGED <<design, safe>> /\ D' = D
  BY DEF RandomSim, D
<1> DEFINE top  == Starting(D, o, file)
           base == IF o.continue THEN file.cycle ELSE 0
           old  == IF o.continue THEN file.by ELSE <<>>
           by   == Append(old, design)
<1>3. top \in Tops(D)
  BY StartingTop
<1>4. base \in Nat /\ old \in Seq(Known) /\ design \in Known
  <2>1. design \in Known /\ <<>> \in Seq(Known)
    BY LoadedDesign DEF IInv
  <2>2. file.cycle \in Nat /\ file.by \in Seq(Known)
    <3>1. CASE Blank(file)
      <4>1. file.cycle = 0 /\ file.by = <<>>
        BY <3>1 DEF Blank
      <4>2. QED
        BY <2>1, <4>1
    <3>2. CASE Saved(file)
      BY <3>2 DEF Saved
    <3>3. QED
      BY <3>1, <3>2, Zenon DEF IInv, FileOK
  <2>3. QED
    BY <2>1, <2>2
<1>5. by \in Seq(Known) /\ by # <<>> /\ Last(by) = design /\ Range(by) = Range(old) \cup {design}
  <2> HIDE DEF old
  <2>1. QED
    BY <1>4, RangeAppend
<1>6. run' = [NoRun EXCEPT !.pc = "loop", !.opt = o, !.top = top, !.base = base, !.by = by]
  BY <1>1
<1>7. NoRun \in Runs(D) /\ NoRun.printed = <<>> /\ NoRun.unsafe = FALSE /\ NoRun.cycle = 0
  BY NoRunFields
<1> HIDE DEF top, base, by
<1>8. /\ run' \in Runs(D) /\ run'.pc = "loop" /\ run'.opt = o /\ run'.top = top /\ run'.by = by
      /\ run'.printed = <<>> /\ run'.unsafe = FALSE /\ run'.cycle = 0
  BY <1>3, <1>4, <1>5, <1>6, <1>7 DEF Runs
<1>9. RunOK'
  <2>1. o.cycles \in Nat
    BY RandomSimAssumption DEF Options
  <2>2. run'.cycle = Len(run'.printed) /\ run'.cycle <= run'.opt.cycles
    BY <1>8, <2>1
  <2>3. run'.by # <<>> /\ Last(run'.by) = design'
    BY <1>2, <1>5, <1>8
  <2>4. QED
    BY <1>1, <1>2, <1>8, <2>2, <2>3 DEF RunOK
<1>10. Range(by) = {design} => Regs(D, top) \in Reachable(D)
  <2>1. Synchronous(D)
    BY LoadedDesign DEF IInv
  <2>2. CASE ~o.continue \/ Blank(file)
    BY <2>1, <2>2, StartingTop, ReachableIsClosed DEF top
  <2>3. CASE o.continue /\ Saved(file)
    <3> SUFFICES ASSUME Range(by) = {design} PROVE Regs(D, top) \in Reachable(D)
      OBVIOUS
    <3>1. Range(file.by) \subseteq {design} /\ file.by \in Seq(Known) /\ file.by # <<>>
      BY <1>5, <2>3 DEF Saved
    <3>2. Last(file.by) \in Range(file.by)
      BY <1>4, <3>1, RangeAppend
    <3>3. Range(file.by) = {Last(file.by)} /\ Last(file.by) = design
      BY <3>1, <3>2
    <3>4. Regs(D, top) = file.on \cap D.regs
      BY <2>3, <3>3, StartingTop DEF top
    <3>5. QED
      BY <2>3, <3>3, <3>4 DEF Saved, D
  <2>4. QED
    BY <2>2, <2>3 DEF IInv, FileOK
<1>11. TopReachable'
  BY <1>2, <1>8, <1>10 DEF TopReachable, Pure
<1>12. QED
  BY <1>8, <1>9, <1>11, NoRows

(* A step between the phases of the simulator moves nothing else.           *)
LEMMA PhaseKeeps ==
  ASSUME IInv, UNCHANGED <<design, safe>>, run.pc # "idle",
         NEW pc \in {"idle", "save", "write"}, run' = [run EXCEPT !.pc = pc]
  PROVE  RunOK' /\ TopReachable' /\ UnsafeIsReal' /\ ResetComesFirst'
<1>1. D' = D /\ run \in Runs(D)
  BY DEF D, IInv, RunOK
<1>2. /\ run' \in Runs(D) /\ run'.pc = pc /\ run'.opt = run.opt /\ run'.top = run.top
      /\ run'.cycle = run.cycle /\ run'.printed = run.printed
      /\ run'.unsafe = run.unsafe /\ run'.by = run.by
  BY <1>1 DEF Runs
<1>3. UnsafeIsReal' /\ ResetComesFirst' /\ (Pure' <=> Pure)
  BY <1>2, SameRows DEF IInv
<1>4. RunOK'
  BY <1>1, <1>2 DEF IInv, RunOK
<1>5. TopReachable'
  BY <1>1, <1>2, <1>3 DEF IInv, TopReachable
<1>6. QED
  BY <1>3, <1>4, <1>5

(* What a continued run leaves in the file is the state it ended in.        *)
LEMMA WriteSaves ==
  ASSUME IInv, WriteState
  PROVE  /\ file'.state = "saved" /\ Saved(file')
         /\ Last(file'.by) = design /\ file'.on = run.top.on
         /\ file'.cycle = run.base + run.opt.cycles
<1>1. /\ run.pc = "write" /\ run \in Runs(D) /\ run.by # <<>> /\ Last(run.by) = design
      /\ design \in DOMAIN Design
  BY DEF WriteState, IInv, RunOK
<1>2. run.by \in Seq(Known) /\ run.base \in Nat /\ run.opt.cycles \in Nat
  BY <1>1, RandomSimAssumption DEF Runs, Options
<1>3. /\ Only(run.by) \in Seq(Known) /\ Only(run.by) # <<>> /\ Last(Only(run.by)) = design
      /\ Range(Only(run.by)) = {design} => Pure
  BY <1>1, <1>2, OnlyFields DEF Pure
<1>4. file' = [state |-> "saved", cycle |-> run.base + run.opt.cycles, on |-> run.top.on,
               width |-> D.width, by |-> Only(run.by)]
  BY DEF WriteState
<1>5. /\ file'.state = "saved" /\ file'.cycle = run.base + run.opt.cycles
      /\ file'.on = run.top.on /\ file'.width = D.width /\ file'.by = Only(run.by)
  BY <1>4
<1>6. Range(file'.by) = {design} => file'.on \cap D.regs \in Reachable(D)
  BY <1>1, <1>3, <1>5 DEF IInv, TopReachable, Regs
<1>7. Saved(file')
  <2>1. file'.cycle \in Nat
    BY <1>2, <1>5
  <2>2. file'.by \in Seq(Known) /\ file'.by # <<>> /\ Last(file'.by) = design
    BY <1>3, <1>5
  <2>3. file'.width = Design[Last(file'.by)].width
    BY <1>5, <2>2 DEF D
  <2>4. QED
    BY <1>1, <1>6, <2>1, <2>2, <2>3 DEF Saved, D
<1>8. QED
  BY <1>3, <1>5, <1>7

\* The invariant holds when the program starts.
LEMMA InitIInv == Init => IInv
<1> SUFFICES ASSUME Init PROVE IInv
  OBVIOUS
<1>1. run = NoRun /\ file = NoFile /\ design \in DOMAIN Design
  BY DEF Init
<1>2. FileOK
  BY <1>1, NoFileFields DEF FileOK
<1>3. RunOK
  <2>1. run \in Runs(D) /\ ~Refused(run.opt) /\ run.pc = "idle" /\ run.printed = <<>>
    BY <1>1, NoRunFields
  <2>2. run.cycle = Len(run.printed) /\ run.cycle <= run.opt.cycles
    BY <1>1, NoRunNumbers, Zenon
  <2>3. QED
    BY <2>1, <2>2, Zenon DEF RunOK
<1>4. TopReachable
  BY <1>1, NoRunFields DEF TopReachable
<1>5. UnsafeIsReal /\ ResetComesFirst
  <2>1. run.printed = <<>> /\ ~run.unsafe
    BY <1>1, NoRunFields
  <2>2. QED
    BY <2>1 DEF UnsafeIsReal, ResetComesFirst, ShownAt, RowsAreReal, RowsFromReset
<1>6. QED
  BY <1>1, <1>2, <1>3, <1>4, <1>5 DEF IInv

\* Every action keeps the invariant.
LEMMA NextIInv == IInv /\ [Next]_vars => IInv'
<1> SUFFICES ASSUME IInv, [Next]_vars PROVE IInv'
  OBVIOUS
<1>1. ASSUME UNCHANGED file PROVE FileOK'
  BY <1>1 DEF IInv, FileOK
<1>2. design' \in DOMAIN Design
  BY DEF IInv, Next, Simulate, NewSession, SetSafe, RandomSim, Cycle, LoopEnds, OpenState, WriteState,
         Finish, Killed, vars
<1>3. CASE NewSession \/ SetSafe \/ Killed
  <2>1. run' = NoRun /\ UNCHANGED file
    BY <1>3 DEF NewSession, SetSafe, Killed
  <2>2. QED
    BY <1>1, <1>2, <2>1, NoRunKeeps DEF IInv
<1>4. CASE RandomSim
  <2>1. UNCHANGED file
    BY <1>4 DEF RandomSim
  <2>2. QED
    BY <1>1, <1>2, <1>4, <2>1, BeginKeeps DEF IInv
<1>5. CASE Cycle
  <2>1. UNCHANGED file
    BY <1>5 DEF Cycle
  <2>2. QED
    BY <1>1, <1>2, <1>5, <2>1, CycleKeeps DEF IInv
<1>6. CASE LoopEnds \/ OpenState \/ WriteState \/ Finish
  <2>1. PICK pc \in {"idle", "save", "write"} :
           UNCHANGED <<design, safe>> /\ run.pc # "idle" /\ run' = [run EXCEPT !.pc = pc]
    BY <1>6 DEF LoopEnds, OpenState, WriteState, Finish
  <2>2. RunOK' /\ TopReachable' /\ UnsafeIsReal' /\ ResetComesFirst'
    BY <2>1, PhaseKeeps
  <2>3. FileOK'
    <3>1. CASE WriteState
      BY <3>1, WriteSaves DEF FileOK
    <3>2. CASE OpenState
      BY <3>2, NoFileFields DEF OpenState, FileOK
    <3>3. CASE LoopEnds \/ Finish
      BY <1>1, <3>3 DEF LoopEnds, Finish
    <3>4. QED
      BY <1>6, <3>1, <3>2, <3>3
  <2>4. QED
    BY <1>2, <2>2, <2>3 DEF IInv
<1>7. CASE UNCHANGED vars
  <2>1. UNCHANGED <<design, safe, file, run>> /\ D' = D
    BY <1>7 DEF vars, D
  <2>2. RunOK'
    BY <2>1 DEF IInv, RunOK
  <2>3. UnsafeIsReal' /\ ResetComesFirst' /\ (Pure' <=> Pure)
    BY <2>1, SameRows DEF IInv
  <2>4. TopReachable'
    BY <2>1, <2>3 DEF IInv, TopReachable
  <2>5. QED
    BY <1>1, <1>2, <2>1, <2>2, <2>3, <2>4 DEF IInv
<1>8. QED
  BY <1>3, <1>4, <1>5, <1>6, <1>7 DEF Next, Simulate

\* The invariant holds in every reachable state.
LEMMA InvariantHolds == Spec => []IInv
<1>1. Init => IInv
  BY InitIInv
<1>2. IInv /\ [Next]_vars => IInv'
  BY NextIInv
<1>3. QED
  BY <1>1, <1>2, PTL DEF Spec

-----------------------------------------------------------------------------
(* A run with -RST or -RST_N is reset in its first cycle and never again:   *)
(* each later row is one clock on from the row before it.                   *)
THEOREM ResetIsFirst == Spec => []ResetComesFirst
<1>1. IInv => ResetComesFirst
  BY DEF IInv
<1>2. QED
  BY <1>1, InvariantHolds, PTL

(* "property unsafe!!!" is printed exactly at a row in which the output     *)
(* chosen by SEt SAfe is 1, which is the last; and unless another design    *)
(* had its part in .sim_state.txt the design can get there.                 *)
THEOREM UnsafeCorrect == Spec => []UnsafeIsReal
<1>1. IInv => UnsafeIsReal
  BY DEF IInv
<1>2. QED
  BY <1>1, InvariantHolds, PTL

-----------------------------------------------------------------------------
(***************************************************************************)
(* The simulator implements the runs of module ClockedRuns.                *)
(***************************************************************************)
(* What the refinement shows of a run and of the file.                      *)
RegsNow == IF run.pc = "idle" THEN {} ELSE Regs(D, run.top)
Count == IF run.pc = "idle" THEN 0 ELSE run.base + Len(run.printed)
LeftBehind(f) ==
    [design |-> Last(f.by), count |-> f.cycle, regs |-> f.on \cap Design[Last(f.by)].regs]
KeptNow == IF file.state # "saved" THEN {} ELSE {LeftBehind(file)}

\* The start of the program is a start of the promised behaviour.
LEMMA InitRefines == Init => Promised!RunsInit
<1> SUFFICES ASSUME Init PROVE Promised!RunsInit
  OBVIOUS
<1>1. run.pc = "idle" /\ file.state = "absent"
  BY NoRunFields, NoFileFields DEF Init
<1>2. QED
  BY <1>1 DEF Promised!RunsInit

(* Between two states of one design with the same top, base and rows, the   *)
(* registers and the count are the same.                                    *)
LEMMA SameView ==
  ASSUME UNCHANGED design, run.pc # "idle", run'.pc # "idle",
         run'.top = run.top, run'.base = run.base, run'.printed = run.printed
  PROVE  RegsNow' = RegsNow /\ Count' = Count
<1>1. D' = D
  BY DEF D
<1>2. QED
  BY <1>1 DEF RegsNow, Count

(* RAndom Sim begins a run at power-up or where the file says.              *)
LEMMA BeginRefines == IInv /\ RandomSim => Promised!Begin
<1> SUFFICES ASSUME IInv, RandomSim PROVE Promised!Begin
  OBVIOUS
<1>1. PICK o \in Options :
         run' = [NoRun EXCEPT !.pc = "loop", !.opt = o, !.top = Starting(D, o, file),
                              !.base = IF o.continue THEN file.cycle ELSE 0,
                              !.by = Append(IF o.continue THEN file.by ELSE <<>>, design)]
  BY DEF RandomSim
<1> DEFINE top  == Starting(D, o, file)
           base == IF o.continue THEN file.cycle ELSE 0
           by   == Append(IF o.continue THEN file.by ELSE <<>>, design)
<1>2. run' = [NoRun EXCEPT !.pc = "loop", !.opt = o, !.top = top, !.base = base, !.by = by]
  BY <1>1
<1>3. /\ run.pc = "idle" /\ UNCHANGED <<design, file>> /\ D' = D /\ KeptNow' = KeptNow
      /\ run'.pc # "idle" /\ RegsNow' = Regs(D, top) /\ Count' = base
  <2> HIDE DEF top, base, by
  <2>1. run.pc = "idle" /\ UNCHANGED <<design, file>> /\ D' = D
    BY DEF RandomSim, D
  <2>2. NoRun \in Runs(D) /\ Len(NoRun.printed) = 0
    BY NoRunFields
  <2>3. run'.pc = "loop" /\ run'.top = top /\ run'.base = base /\ run'.printed = NoRun.printed
    BY <1>2, <2>2 DEF Runs
  <2>4. base \in Int
    BY DEF base, IInv, FileOK, Blank, Saved
  <2>5. QED
    BY <2>1, <2>2, <2>3, <2>4 DEF RegsNow, Count, KeptNow
<1>4. \/ RegsNow' = Design[design].power /\ Count' = 0
      \/ \E k \in KeptNow : Count' = k.count /\ (k.design = design => RegsNow' = k.regs)
  <2>1. CASE ~o.continue \/ Blank(file)
    <3>1. Regs(D, top) = D.power
      BY <2>1, StartingTop
    <3>2. base = 0
      BY <2>1 DEF Blank
    <3>3. QED
      BY <1>3, <3>1, <3>2 DEF D
  <2>2. CASE o.continue /\ file.state = "saved" /\ Saved(file)
    <3> DEFINE k == LeftBehind(file)
    <3>1. k \in KeptNow
      BY <2>2 DEF KeptNow
    <3>2. k.design = Last(file.by) /\ k.count = file.cycle
          /\ k.regs = file.on \cap Design[Last(file.by)].regs
      BY DEF LeftBehind
    <3>3. Last(file.by) = design => Regs(D, top) = file.on \cap D.regs
      BY <2>2, StartingTop
    <3>4. base = file.cycle
      BY <2>2
    <3> HIDE DEF k, base, top
    <3>5. Count' = k.count /\ (k.design = design => RegsNow' = k.regs)
      BY <1>3, <3>2, <3>3, <3>4 DEF D
    <3>6. QED
      BY <3>1, <3>5
  <2>3. QED
    BY <2>1, <2>2 DEF IInv, FileOK
<1>5. QED
  BY <1>3, <1>4 DEF Promised!Begin, RegsNow, Count, KeptNow, LeftBehind, Regs

(* A cycle is a tick.                                                       *)
LEMMA CycleRefines == IInv /\ Cycle => Promised!Tick
<1> SUFFICES ASSUME IInv, Cycle PROVE Promised!Tick
  OBVIOUS
<1>1. PICK t \in Tops(D), x \in SUBSET D.inputs :
         /\ run' = AfterCycle(t, Outputs(D, t))
         /\ Outputs(D, t) \in [DOMAIN D.outs -> BOOLEAN]
         /\ Outputs(D, t) = OutputsOf(D, Regs(D, t) \cup x)
         /\ \/ Regs(D, t) = D.resetTo /\ (run.opt.reset => run.cycle = 0)
            \/ Regs(D, t) = D.next[Regs(D, run.top) \cup x] /\ (run.opt.reset => run.cycle # 0)
  BY CycleTop
<1>2. /\ UNCHANGED <<design, file>> /\ D' = D /\ KeptNow' = KeptNow /\ run.pc = "loop"
      /\ run \in Runs(D)
  BY DEF Cycle, D, KeptNow, IInv, RunOK
<1> DEFINE row == [at |-> run.base + run.cycle + 1, regs |-> Regs(D, t), outs |-> Outputs(D, t)]
<1>3. /\ row \in Rows(D) /\ run'.top = t /\ run'.base = run.base
      /\ run'.printed = Append(run.printed, row)
      /\ run'.pc \in {"save", "loop"}
  <2> HIDE DEF Outputs, AfterCycle, Rows, Runs
  <2>1. QED
    BY <1>1, <1>2, AfterCycleFields
<1> HIDE DEF row
<1>4. Len(run'.printed) = Len(run.printed) + 1 /\ Len(run.printed) \in Nat /\ run.base \in Nat
  BY <1>2, <1>3 DEF Runs
<1>5. RegsNow = Regs(D, run.top) /\ RegsNow' = Regs(D, t) /\ Count' = Count + 1
  BY <1>2, <1>3, <1>4 DEF RegsNow, Count
<1>6. \/ RegsNow' = Design[design].resetTo
      \/ \E in \in SUBSET Design[design].inputs : RegsNow' = Design[design].next[RegsNow \cup in]
  BY <1>1, <1>5 DEF D
<1>7. QED
  BY <1>2, <1>3, <1>5, <1>6 DEF Promised!Tick, RegsNow, Count, KeptNow, LeftBehind, Regs

(* Saving the state ends the run and keeps where it was.                    *)
LEMMA WriteRefines == IInv /\ WriteState => Promised!End
<1> SUFFICES ASSUME IInv, WriteState PROVE Promised!End
  OBVIOUS
<1>1. /\ run.pc = "write" /\ run'.pc = "idle" /\ run \in Runs(D) /\ UNCHANGED design
      /\ Len(run.printed) <= run.opt.cycles
  BY DEF WriteState, IInv, RunOK, Runs
<1>2. /\ file'.state = "saved" /\ Last(file'.by) = design /\ file'.on = run.top.on
      /\ file'.cycle = run.base + run.opt.cycles
  BY WriteSaves
<1> DEFINE k == LeftBehind(file')
<1>3. /\ k.design = design /\ k.count = run.base + run.opt.cycles
      /\ k.regs = Regs(D, run.top)
  BY <1>2 DEF LeftBehind, Regs, D
<1>4. KeptNow' = {k}
  BY <1>2 DEF KeptNow, LeftBehind
<1>5. RegsNow = Regs(D, run.top) /\ Count = run.base + Len(run.printed) /\ RegsNow' = {} /\ Count' = 0
  BY <1>1 DEF RegsNow, Count
<1>6. k.count >= Count
  <2>1. run.base \in Nat /\ run.opt.cycles \in Nat /\ Len(run.printed) \in Nat
    BY <1>1, RandomSimAssumption DEF Runs, Options
  <2> HIDE DEF k
  <2>2. QED
    BY <1>1, <1>3, <1>5, <2>1
<1> HIDE DEF k
<1>7. \E left \in KeptNow' :
         KeptNow' = {left} /\ left.design = design /\ left.regs = RegsNow /\ left.count >= Count
  BY <1>3, <1>4, <1>5, <1>6
<1>8. QED
  BY <1>1, <1>5, <1>7 DEF Promised!End, RegsNow, Count, KeptNow, LeftBehind, Regs

\* Every action is an action of the promised behaviour, or a stutter.
LEMMA NextRefines == IInv /\ [Next]_vars => [Promised!RunsNext]_(Promised!runVars)
<1> SUFFICES ASSUME IInv, [Next]_vars PROVE [Promised!RunsNext]_(Promised!runVars)
  OBVIOUS
<1>1. CASE NewSession
  <2>1. run.pc = "idle" /\ run'.pc = "idle" /\ UNCHANGED file
    BY <1>1, NoRunFields DEF NewSession
  <2>2. Promised!NewDesign
    BY <2>1 DEF Promised!NewDesign
  <2>3. QED
    BY <2>2 DEF Promised!RunsNext
<1>2. CASE SetSafe
  <2>1. run.pc = "idle" /\ run'.pc = "idle" /\ UNCHANGED <<design, file>>
    BY <1>2, NoRunFields DEF SetSafe
  <2>2. QED
    BY <2>1 DEF Promised!runVars
<1>3. CASE RandomSim
  BY <1>3, BeginRefines DEF Promised!RunsNext
<1>4. CASE Cycle
  BY <1>4, CycleRefines DEF Promised!RunsNext
<1>5. CASE WriteState
  BY <1>5, WriteRefines DEF Promised!RunsNext
<1>6. CASE LoopEnds \/ OpenState
  <2>1. /\ UNCHANGED design /\ run.pc # "idle" /\ run'.pc # "idle"
        /\ run'.top = run.top /\ run'.base = run.base /\ run'.printed = run.printed
    BY <1>6 DEF LoopEnds, OpenState, IInv, RunOK, Runs
  <2>2. RegsNow' = RegsNow /\ Count' = Count
    BY <2>1, SameView
  <2>3. CASE LoopEnds
    <3>1. UNCHANGED file
      BY <2>3 DEF LoopEnds
    <3>2. QED
      BY <2>1, <2>2, <3>1 DEF Promised!runVars, RegsNow, Count, Regs
  <2>4. CASE OpenState
    <3>1. file'.state = "empty"
      BY <2>4, NoFileFields DEF OpenState
    <3>2. Promised!Lose
      BY <2>1, <2>2, <3>1 DEF Promised!Lose, RegsNow, Count, Regs
    <3>3. QED
      BY <3>2 DEF Promised!RunsNext
  <2>5. QED
    BY <1>6, <2>3, <2>4
<1>7. CASE Finish \/ Killed
  <2>1. run.pc # "idle" /\ run'.pc = "idle" /\ UNCHANGED file
    BY <1>7, NoRunFields DEF Finish, Killed, IInv, RunOK, Runs
  <2>2. Promised!End
    BY <2>1 DEF Promised!End
  <2>3. QED
    BY <2>2 DEF Promised!RunsNext
<1>8. CASE UNCHANGED vars
  <2>1. UNCHANGED <<design, file, run>> /\ D' = D
    BY <1>8 DEF vars, D
  <2>2. QED
    BY <2>1 DEF Promised!runVars
<1>9. QED
  BY <1>1, <1>2, <1>3, <1>4, <1>5, <1>6, <1>7, <1>8 DEF Next, Simulate

(* A run starts at power-up or where the last continued run of the design   *)
(* stopped, in another session of gv too, and every cycle it prints is one  *)
(* rising edge of the clock.                                                *)
THEOREM RunsContinue == Spec => ContinuesWhereItStopped
<1>1. Init => Promised!RunsInit
  BY InitRefines
<1>2. IInv /\ [Next]_vars => [Promised!RunsNext]_(Promised!runVars)
  BY NextRefines
<1>3. QED
  BY <1>1, <1>2, InvariantHolds, PTL DEF Spec, ContinuesWhereItStopped, Promised!RunsSpec
=============================================================================
