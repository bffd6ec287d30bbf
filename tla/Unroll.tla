------------------------------- MODULE Unroll -------------------------------
(***************************************************************************)
(* Time-frame expansion of a circuit into clauses (MinisatMgr, of          *)
(* src/src/sat/minisatMgr.cpp) and the bounded model checking that runs on *)
(* it (ItpMgr::indBmc, the command SATVerify BMC).  The solver behind it   *)
(* keeps the promise of SatOracle, which SatSolver is checked to keep.     *)
(*                                                                         *)
(* A circuit is [gate, pos]: gate maps ids to [type, in], `in' being the   *)
(* edges <<id, inverted>>; ids may be missing, as in a circuit read from   *)
(* Verilog.  The SAT variables of a gate are a list without frame numbers: *)
(* the frame of a variable is its place.                                   *)
(***************************************************************************)
EXTENDS Integers, Sequences, FiniteSets, SequencesExt, FiniteSetsExt, Functions, TLC

CONSTANTS
    Circuits,    \* bound: the circuits
    Targets,     \* bound: what BMC is asked for, <<"gate", id>> or <<"output", index>>
    MaxDepth     \* the depth at which BMC stops (1000 in the code)

ASSUME UnrollAssumption == MaxDepth \in Nat

VARIABLES
    cir,         \* the circuit
    satVar,      \* _satVar: of every gate, its variables
    numVars,     \* variables of the solver; 0 is nobody's and means none
    given,       \* clauses of the expansion in the solver
    asserted,    \* the units of assertProperty in the solver
    engine       \* [pc, target, monitor, init, depth, fired, model]

vars == <<cir, satVar, numVars, given, asserted, engine>>

\* The solver asked is as SatOracle has it.
Oracle == INSTANCE SatOracle WITH given <- given \cup asserted, asked <- <<>>, busy <- FALSE, reply <- [said |-> "none"]
Var(p) == Oracle!Var(p)
Neg(p) == Oracle!Neg(p)
MkLit(v, invert) == IF invert THEN 2 * v + 1 ELSE 2 * v

\* Models(n, F), one variable after the other.
Extend(ms, v, F) ==
    {a \in {m \cup {p} : m \in ms, p \in {2 * v, 2 * v + 1}} :
        \A C \in F : Max({Var(p) : p \in C}) = v => a \cap C # {}}
Models(n, F) == FoldLeft(LAMBDA ms, v : Extend(ms, v - 1, F), {{}}, [k \in 1 .. n |-> k])

-----------------------------------------------------------------------------
(***************************************************************************)
(* The expansion.  u = [satVar, numVars, given].                           *)
(***************************************************************************)
Type(g) == cir.gate[g].type
In(g, k) == cir.gate[g].in[k][1]
Inv(g, k) == cir.gate[g].in[k][2]

OfType(t) == {g \in DOMAIN cir.gate : Type(g) = t}

\* getSatVar: 0 beyond the end of the list.
SatVar(u, g, d) == IF d >= Len(u.satVar[g]) THEN 0 ELSE u.satVar[g][d + 1]
Exists(u, g, d) == SatVar(u, g, d) # 0

AddVar(u, g, v) == [u EXCEPT !.satVar[g] = Append(@, v)]
FreshVar(u, g) == AddVar([u EXCEPT !.numVars = @ + 1], g, u.numVars)
AddClauses(u, cs) == [u EXCEPT !.given = @ \cup cs]

AddFalse(u, g, d) ==
    LET w == FreshVar(u, g) IN AddClauses(w, {{MkLit(SatVar(w, g, d), TRUE)}})
AddPi(u, g) == FreshVar(u, g)

\* In frame 0 a flip-flop is free; later it is its input of the frame before.
AddFf(u, g, d) ==
    LET b == MkLit(SatVar(u, In(g, 1), d - 1), TRUE)
        a == MkLit(u.numVars, FALSE)
    IN  IF d = 0 THEN FreshVar(u, g)
        ELSE IF Inv(g, 1) THEN AddClauses(FreshVar(u, g), {{Neg(a), b}, {a, Neg(b)}})
        ELSE AddVar(u, g, SatVar(u, In(g, 1), d - 1))

(* Slip: the clause that makes the gate true is left out.                   *)
AddAndHalf(u, g, d) ==
    LET y == MkLit(u.numVars, FALSE)
        a == MkLit(SatVar(u, In(g, 1), d), Inv(g, 1))
        b == MkLit(SatVar(u, In(g, 2), d), Inv(g, 2))
    IN  AddClauses(FreshVar(u, g), {{a, Neg(y)}, {b, Neg(y)}})

AddAnd(u, g, d) ==
    LET y == MkLit(u.numVars, FALSE)
        a == MkLit(SatVar(u, In(g, 1), d), Inv(g, 1))
        b == MkLit(SatVar(u, In(g, 2), d), Inv(g, 2))
    IN  AddClauses(FreshVar(u, g), {{a, Neg(y)}, {b, Neg(y)}, {Neg(a), Neg(b), y}})

\* Only an RI goes down a frame; an RO goes to its RI in the same frame.
FrameBelow(g, d) == IF Type(g) = "ri" THEN d - 1 ELSE d

RECURSIVE AddBounded(_, _, _)
AddBounded(u, g, d) ==
    IF Exists(u, g, d) THEN u
    ELSE CASE Type(g) = "pi" -> AddPi(u, g)
           [] Type(g) \in {"ro", "ri"} ->
                AddFf(IF d = 0 THEN u ELSE AddBounded(u, In(g, 1), FrameBelow(g, d)), g, d)
           [] Type(g) = "po" -> AddFf(AddBounded(u, In(g, 1), d), g, d)
           [] Type(g) = "aig" -> AddAnd(AddBounded(AddBounded(u, In(g, 1), d), In(g, 2), d), g, d)
           [] Type(g) = "const" -> AddFalse(u, g, d)

Unrolled == [satVar |-> satVar, numVars |-> numVars, given |-> given]

-----------------------------------------------------------------------------
(***************************************************************************)
(* The command and the engine.                                             *)
(***************************************************************************)
NoBmc == [pc |-> "idle", target |-> <<>>, monitor |-> 0, init |-> 0, depth |-> 0,
          fired |-> -1, model |-> {}]

Init ==
    /\ cir \in Circuits
    /\ satVar = [g \in DOMAIN cir.gate |-> <<>>] /\ numVars = 0
    /\ given = {} /\ asserted = {} /\ engine = NoBmc

NumTots == Max(DOMAIN cir.gate) + 1
Refused(target) ==
    \/ target[1] = "gate" /\ target[2] >= NumTots
    \/ target[1] = "output" /\ target[2] > Len(cir.pos)

\* An output stands for the gate that drives it.
MonitorOf(target) == IF target[1] = "gate" THEN target[2] ELSE In(cir.pos[target[2]], 1)

(***************************************************************************)
(* verifyPropertyBmc up to the loop: a new manager, which clears the       *)
(* variables of the gates, and the initial state, asserted in frame 0.     *)
(* buildInitState returns a pointer to an AND gate that it never sets: it  *)
(* may point to any of them, or to no gate at all.                         *)
(***************************************************************************)
NewManager == [satVar |-> [g \in DOMAIN cir.gate |-> <<>>], numVars |-> 1, given |-> {}]

(* Slip: the initial state is expanded and never asserted.                 *)
StartAnywhere(target, init, u) ==
    /\ satVar' = u.satVar /\ numVars' = u.numVars /\ given' = u.given
    /\ asserted' = {}
    /\ engine' = [NoBmc EXCEPT !.pc = "bmc", !.target = target, !.monitor = MonitorOf(target),
                               !.init = init]
    /\ UNCHANGED cir

Start(target, init, u) ==
    /\ satVar' = u.satVar /\ numVars' = u.numVars /\ given' = u.given
    /\ asserted' = {{MkLit(SatVar(u, init, 0), FALSE)}}
    /\ engine' = [NoBmc EXCEPT !.pc = "bmc", !.target = target, !.monitor = MonitorOf(target),
                               !.init = init]
    /\ UNCHANGED cir

Die ==
    /\ engine' = [NoBmc EXCEPT !.pc = "died"]
    /\ UNCHANGED <<cir, satVar, numVars, given, asserted>>

Startable == engine.pc = "idle"

SATVerifyBmc(target) ==
    /\ Startable /\ ~Refused(target) /\ MonitorOf(target) \in DOMAIN cir.gate
    /\ \/ \E init \in OfType("aig") : Start(target, init, AddBounded(NewManager, init, 0))
       \/ Die

\* A gate id that the circuit does not have is a null pointer.
SATVerifyBmcOfNothing(target) ==
    /\ Startable /\ ~Refused(target) /\ MonitorOf(target) \notin DOMAIN cir.gate
    /\ Die

\* One round of the loop: expand, assume the monitor and solve.
MonitorLit(u) == MkLit(SatVar(u, engine.monitor, engine.depth), FALSE)
(* Slip: the monitor is asserted as it was assumed.                         *)
RoundAssertsTrue(u, ms) ==
    /\ satVar' = u.satVar /\ numVars' = u.numVars /\ given' = u.given
    /\ \/ \E m \in ms :
            /\ engine' = [engine EXCEPT !.pc = "fired", !.fired = engine.depth, !.model = m]
            /\ UNCHANGED asserted
       \/ /\ ms = {}
          /\ asserted' = asserted \cup {{MonitorLit(u)}}
          /\ engine' = [engine EXCEPT !.depth = @ + 1]
    /\ UNCHANGED cir

Round(u, ms) ==
    /\ satVar' = u.satVar /\ numVars' = u.numVars /\ given' = u.given
    /\ \/ \E m \in ms :
            /\ engine' = [engine EXCEPT !.pc = "fired", !.fired = engine.depth, !.model = m]
            /\ UNCHANGED asserted
       \/ /\ ms = {}
          /\ asserted' = asserted \cup {{Neg(MonitorLit(u))}}
          /\ engine' = [engine EXCEPT !.depth = @ + 1]
    /\ UNCHANGED cir
SolveUnder(u) == Models(u.numVars, u.given \cup asserted \cup {{MonitorLit(u)}})
RoundAfter(u) == Round(u, SolveUnder(u))
BmcRound ==
    /\ engine.pc = "bmc" /\ engine.depth < MaxDepth
    /\ RoundAfter(AddBounded(Unrolled, engine.monitor, engine.depth))

\* reportResult, reportCex and ItpMgr::reset.
BmcEnds ==
    /\ \/ engine.pc = "fired"
       \/ engine.pc = "bmc" /\ engine.depth = MaxDepth
    /\ engine' = NoBmc
    /\ UNCHANGED <<cir, satVar, numVars, given, asserted>>

Next ==
    \/ \E target \in Targets : SATVerifyBmc(target) \/ SATVerifyBmcOfNothing(target)
    \/ BmcRound \/ BmcEnds

Spec == Init /\ [][Next]_vars

-----------------------------------------------------------------------------
(***************************************************************************)
(* The circuit as a machine: values of latches and inputs in every frame.  *)
(***************************************************************************)
RECURSIVE ValueOf(_, _, _, _)
ValueOf(start, inputs, g, d) ==
    LET of(k) == ValueOf(start, inputs, In(g, k), d) # Inv(g, k) IN
    CASE Type(g) = "const" -> FALSE
      [] Type(g) = "pi" -> inputs[d + 1][g]
      [] Type(g) = "ro" -> IF d = 0 THEN start[g] ELSE ValueOf(start, inputs, In(g, 1), d - 1)
      [] Type(g) \in {"ri", "po"} -> of(1)
      [] Type(g) = "aig" -> of(1) /\ of(2)

Starts == [OfType("ro") -> BOOLEAN]
InputRuns(depth) == [1 .. depth + 1 -> [OfType("pi") -> BOOLEAN]]
Begins(start, inputs) == ValueOf(start, inputs, engine.init, 0)

\* The circuit can make g true in frame d (and not before, from the same start).
Reaches(g, d) ==
    \E start \in Starts : \E inputs \in InputRuns(d) :
        Begins(start, inputs) /\ ValueOf(start, inputs, g, d)

(* The verdict of BMC is that of the circuit: it fires in the first frame  *)
(* in which the monitor can be true after a start the initial gate admits, *)
(* and in no frame it has gone past can it be true.                        *)
VerdictExact ==
    engine.pc \in {"bmc", "fired"} =>
        /\ \A d \in 0 .. engine.depth - 1 : ~Reaches(engine.monitor, d)
        /\ engine.pc = "fired" => Reaches(engine.monitor, engine.fired)

\* What reportCex prints: the inputs of each frame, x where there is no variable.
Printed(d, g) ==
    IF ~Exists(Unrolled, g, d) THEN "x"
    ELSE IF MkLit(SatVar(Unrolled, g, d), FALSE) \in engine.model THEN "1" ELSE "0"
Matches(inputs) ==
    \A d \in 0 .. engine.fired : \A g \in OfType("pi") :
        Printed(d, g) # "x" => inputs[d + 1][g] = (Printed(d, g) = "1")

(* The pattern printed for a violation replays: from some initial state,   *)
(* every way to fill in the x of it makes the monitor true in its frame,   *)
(* whichever gates share variables and however many frames were expanded.  *)
TraceReplays ==
    engine.pc = "fired" =>
        /\ \A d \in 0 .. engine.fired : Exists(Unrolled, engine.monitor, d)
        /\ \E start \in Starts : \A inputs \in InputRuns(engine.fired) :
             Matches(inputs) =>
                /\ Begins(start, inputs)
                /\ ValueOf(start, inputs, engine.monitor, engine.fired)

(* The clauses admit the circuit's runs and no others: the values they     *)
(* leave open to the variables are those the gates take, frame by frame.   *)
Frames == {<<g, d>> \in (DOMAIN cir.gate) \X (0 .. MaxDepth) :
             Type(g) # "ri" /\ Exists(Unrolled, g, d)}
FramesAreRuns ==
    engine.pc = "bmc" =>
        {[f \in Frames |-> MkLit(SatVar(Unrolled, f[1], f[2]), FALSE) \in m] :
            m \in Models(numVars, given)}
      = {[f \in Frames |-> ValueOf(start, inputs, f[1], f[2])] :
            start \in Starts, inputs \in InputRuns(MaxDepth)}

=============================================================================
