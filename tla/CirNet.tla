------------------------------- MODULE CirNet -------------------------------
(***************************************************************************)
(* The circuit of src/cir and the conversions around it: a file becomes a  *)
(* Gia in ABC, the Gia the gates of CirMgr (giaToCir), the gates a depth-  *)
(* first list, BDDs under a variable order (BSETOrder, BCONStruct), an AIG *)
(* for ABC's PDR (reorderGateId, cirToAig) and a Verilog file again.       *)
(*                                                                         *)
(* A file is given as what an AIGER file says: variable 0 is the constant, *)
(* then the inputs, the latches and the ANDs in order; a literal is a pair *)
(* of a variable and whether it is complemented.                           *)
(***************************************************************************)
EXTENDS Integers, Sequences, FiniteSets, SequencesExt, Functions, TLC

CONSTANTS
  Files,          \* the circuits that can be read
  SupportCounts,  \* the numbers of supports a BRESET asks for
  DefaultSupports, \* the number the manager is made with (128)
  Levels,         \* bound: the levels 1 .. n that circuits and BRESETs need
  MaxReads,       \* bound: circuits read in a session
  MaxFiled,       \* bound: BDDs filed when a BCONStruct -Gateid may yet come
  NullEdge,       \* the complemented null edge
  NoNet           \* no circuit has been read

ASSUME SupportsAssumption == {DefaultSupports} \union SupportCounts \subseteq Nat
ASSUME BoundsAssumption   == MaxReads \in Nat /\ MaxFiled \in Nat

Lit(v, inv)   == [id |-> v, inv |-> inv]
Flip(l)       == [l EXCEPT !.inv = ~@]
ConstOne      == Lit(0, TRUE)
NumLatches(f) == Len(f.ri)

-----------------------------------------------------------------------------
(***************************************************************************)
(* What ABC makes of a file.  An object is its type and its fan-ins; its   *)
(* id is its place, from 0.                                                *)
(***************************************************************************)
Obj(type, in) == [type |-> type, in |-> in]
Copies(n, o)  == [i \in 1 .. n |-> o]
Drivers(type, lits) == [i \in DOMAIN lits |-> Obj(type, <<lits[i]>>)]
Gates(ands)   == [i \in DOMAIN ands |-> Obj("and", ands[i])]

GiaOf(pis, ros, ands, po, ri) ==
  <<Obj("const0", <<>>)>> \o Copies(pis, Obj("pi", <<>>)) \o Copies(ros, Obj("ro", <<>>))
    \o Gates(ands) \o Drivers("po", po) \o Drivers("ri", ri)

(* Latches that start at 0.                                                 *)
ZeroStart(f) == GiaOf(f.pis, NumLatches(f), f.and, f.po, f.ri)

(* Latches with no initial value, which all those of a Verilog design are   *)
(* without an initial block: ABC adds an input for each (PPI) and one latch *)
(* that is 0 in the first cycle and 1 ever after, and puts a multiplexer of *)
(* three ANDs in front of every latch output.                               *)
UnknownStart(f) ==
  LET n      == NumLatches(f)
      ppi(i) == Lit(f.pis + i, FALSE)
      ro(i)  == Lit(f.pis + n + i, FALSE)
      reset  == Lit(f.pis + 2 * n + 1, FALSE)
      top    == reset.id
      mux(i) == top + 3 * i
      muxes  == [k \in 1 .. 3 * n |->
                   LET i == (k + 2) \div 3
                   IN  CASE k % 3 = 1 -> <<Flip(reset), ppi(i)>>
                         [] k % 3 = 2 -> <<reset, ro(i)>>
                         [] k % 3 = 0 -> <<Lit(mux(i) - 2, TRUE), Lit(mux(i) - 1, TRUE)>>]
      new(l) == CASE l.id <= f.pis     -> l
                  [] l.id > f.pis + n  -> [l EXCEPT !.id = @ + 1 + 4 * n]
                  [] OTHER             -> Lit(mux(l.id - f.pis), ~l.inv)
      moved  == [i \in DOMAIN f.and |-> <<new(f.and[i][1]), new(f.and[i][2])>>]
      of(ls) == [i \in DOMAIN ls |-> new(ls[i])]
  IN  GiaOf(f.pis + n, n + 1, muxes \o moved, of(f.po), of(f.ri) \o <<ConstOne>>)

Gia(f) == IF f.fmt = "verilog" /\ NumLatches(f) > 0 THEN UnknownStart(f) ELSE ZeroStart(f)

-----------------------------------------------------------------------------
(***************************************************************************)
(* giaToCir, with initCir before it and the create functions under it.     *)
(***************************************************************************)
Ids(g, type) == SelectSeq([i \in 1 .. Len(g) |-> i - 1], LAMBDA i : g[i + 1].type = type)

(* How many inputs and latches initCir makes room for.                      *)
PiRoom(f, g) ==
  IF f.fmt = "verilog" /\ Len(Ids(g, "ro")) > 0
  THEN Len(Ids(g, "pi")) - Len(Ids(g, "ro")) + 1
  ELSE Len(Ids(g, "pi"))
LatchRoom(f, g) ==
  LET regs == Len(Ids(g, "ro"))
  IN  IF f.fmt = "verilog" /\ regs > 0 THEN regs - 1 ELSE regs

(* Slip: the latch that ABC added is taken for the first of the list.       *)
LatchOfPpiShifted(f, g) ==
  LET ppis == SelectSeq(Ids(g, "pi"), LAMBDA i : i > PiRoom(f, g))
      ros  == Ids(g, "ro")
  IN  [r \in ToSet(ros) |->
         LET k == CHOOSE k \in DOMAIN ros : ros[k] = r
         IN  IF k = 1 THEN 0 ELSE ppis[k - 1]]

(* PPI2RO: what stands for a latch output of the Gia is the gate made of    *)
(* its PPI, and the constant for the latch that ABC added.                  *)
LatchOfPpi(f, g) ==
  LET ppis == SelectSeq(Ids(g, "pi"), LAMBDA i : i > PiRoom(f, g))
      ros  == Ids(g, "ro")
  IN  [r \in ToSet(ros) |->
         LET k == CHOOSE k \in DOMAIN ros : ros[k] = r
         IN  IF k <= Len(ppis) THEN ppis[k] ELSE 0]

(* The gates and lists of CirMgr; the constant 1 gets an id of its own      *)
(* behind those of the Gia.  Ids between may have no gate.                  *)
GiaToCir(f) ==
  LET g      == Gia(f)
      room   == PiRoom(f, g)
      isV    == f.fmt = "verilog"
      pi     == SelectSeq(Ids(g, "pi"), LAMBDA i : i <= room)
      ro     == IF isV THEN SelectSeq(Ids(g, "pi"), LAMBDA i : i > room) ELSE Ids(g, "ro")
      ri     == SubSeq(Ids(g, "ri"), 1, LatchRoom(f, g))
      alias  == IF isV THEN LatchOfPpi(f, g) ELSE <<>>
      via(l) == IF l.id \in DOMAIN alias THEN [l EXCEPT !.id = alias[l.id]] ELSE l
      made   == {0} \union ToSet(pi \o ro \o ri \o Ids(g, "and") \o Ids(g, "po"))
      gate(i) ==
        CASE i \in ToSet(ro) -> [type |-> "ro", named |-> FALSE,
                                 in |-> <<Lit(ri[CHOOSE k \in DOMAIN ro : ro[k] = i], FALSE)>>]
          [] g[i + 1].type = "and" -> [type |-> "and", named |-> FALSE,
                                 in |-> <<via(g[i + 1].in[1]), via(g[i + 1].in[2])>>]
          [] OTHER -> [type |-> g[i + 1].type, in |-> g[i + 1].in,
                       named |-> g[i + 1].type \in {"po", "ri"}]
  IN  [gate |-> [i \in made |-> gate(i)]
                  @@ (Len(g) :> [type |-> "and", named |-> FALSE, in |-> <<ConstOne, ConstOne>>]),
       pi |-> pi, ro |-> ro, ri |-> ri, po |-> Ids(g, "po"), aig |-> Ids(g, "and")]

(* The ids there are: getNumTots().                                         *)
Tots(c) == 1 + CHOOSE i \in DOMAIN c.gate : \A k \in DOMAIN c.gate : k <= i

(***************************************************************************)
(* genDfsList.  The global mark a gate carries is its place in t.seen.     *)
(***************************************************************************)
FaninsFollowed(c, i) ==
  IF c.gate[i].type \in {"and", "po", "ri"} THEN c.gate[i].in ELSE <<>>

(* Slip: the gate is listed on the way down.                                *)

RECURSIVE Visit(_, _, _)
Visit(c, t, i) ==
  IF i \in t.seen THEN t
  ELSE LET below == FoldLeft(LAMBDA u, l : Visit(c, u, l.id),
                             [t EXCEPT !.seen = @ \union {i}], FaninsFollowed(c, i))
       IN  [below EXCEPT !.list = Append(@, i)]

DfsFrom(c, roots) == FoldLeft(LAMBDA t, i : Visit(c, t, i),
                              [seen |-> {}, list |-> <<>>], roots).list
DfsList(c) == DfsFrom(c, c.po \o c.ri)

(***************************************************************************)
(* collectPiOrder.                                                         *)
(***************************************************************************)
Modes == {"file", "rfile", "dfs", "rdfs"}

PiOrder(c, mode) ==
  LET listed  == SelectSeq(DfsList(c), LAMBDA i : c.gate[i].type = "pi")
      missing == SelectSeq(c.pi, LAMBDA i : i \notin ToSet(listed))
  IN  CASE mode = "file"  -> c.pi
        [] mode = "rfile" -> Reverse(c.pi)
        [] mode = "dfs"   -> listed \o missing
        [] mode = "rdfs"  -> Reverse(listed) \o missing

InMode(mode, list) == IF mode \in {"rfile", "rdfs"} THEN Reverse(list) ELSE list

-----------------------------------------------------------------------------
(***************************************************************************)
(* reorderGateId and cirToAig.  The network is written in the form of a    *)
(* file: vNodes holds the constant, the inputs, the latches and the ANDs,  *)
(* and a literal tells its place there.                                    *)
(***************************************************************************)
IdMap(c) ==
  LET ids == c.pi \o c.ro \o c.aig \o c.po
  IN  [i \in {ids[k] : k \in {k \in DOMAIN ids : ids[k] # k}} |->
         CHOOSE k \in DOMAIN ids : ids[k] = i]

(* Slip: the outputs keep the ids they had.                                 *)
CirToAigOldOutputs(c) ==
  LET m      == IdMap(c)
      of(l)  == IF l.id \in DOMAIN m THEN [l EXCEPT !.id = m[@]] ELSE l
      in(i, k) == of(c.gate[i].in[k])
  IN  [pis |-> Len(c.pi),
       and |-> [k \in DOMAIN c.aig |-> <<in(c.aig[k], 1), in(c.aig[k], 2)>>],
       ri  |-> [k \in DOMAIN c.ri |-> in(c.ri[k], 1)],
       po  |-> [k \in DOMAIN c.po |-> c.gate[c.po[k]].in[1]]]

CirToAig(c) ==
  LET m      == IdMap(c)
      of(l)  == IF l.id \in DOMAIN m THEN [l EXCEPT !.id = m[@]] ELSE l
      in(i, k) == of(c.gate[i].in[k])
  IN  [pis |-> Len(c.pi),
       and |-> [k \in DOMAIN c.aig |-> <<in(c.aig[k], 1), in(c.aig[k], 2)>>],
       ri  |-> [k \in DOMAIN c.ri |-> in(c.ri[k], 1)],
       po  |-> [k \in DOMAIN c.po |-> in(c.po[k], 1)]]

-----------------------------------------------------------------------------
VARIABLES
  file,        \* the file of the circuit read last
  net,         \* cirMgr
  reads,       \* history: circuits read so far
  supports,    \* number of supports of the BDD manager
  setBddOrder, \* the global flag of bddCmd.cpp
  orderedFor,  \* history: the circuit the variables were laid out for, 0 for none
  bddArr,      \* _bddArr: BDDs by gate id
  nsLevel,     \* _bddMap: the levels of the names id_ns
  given,       \* what the last command gave away: a network to ABC (PDR), the
               \* input declarations of a Verilog file (CIRWrite), or Nothing
  process      \* "running", or what brought the process down

bddVars == <<supports, setBddOrder, orderedFor, bddArr, nsLevel>>
vars == <<file, net, reads, bddVars, given, process>>

Assign == [1 .. Levels -> BOOLEAN]
Var(l) == {a \in Assign : a[l]}

Nothing == [kind |-> "nothing"]

Init ==
  /\ file = NoNet
  /\ net = NoNet
  /\ reads = 0
  /\ supports = DefaultSupports
  /\ setBddOrder = FALSE
  /\ orderedFor = 0
  /\ bddArr = <<>>
  /\ nsLevel = <<>>
  /\ given = Nothing
  /\ process = "running"

Running == process = "running"

(* CIRRead: with a circuit there, only -Replace; nothing of the BDD manager *)
(* changes.                                                                 *)
CirRead(f, replace) ==
  /\ Running
  /\ reads < MaxReads
  /\ net = NoNet \/ replace
  /\ file' = f
  /\ net' = GiaToCir(f)
  /\ reads' = reads + 1
  /\ given' = Nothing
  /\ UNCHANGED <<bddVars, process>>

ForgetBdds ==
  /\ bddArr' = <<>>
  /\ nsLevel' = <<>>

BReset(n) ==
  /\ Running
  /\ supports' = n
  /\ ForgetBdds
  /\ orderedFor' = 0
  /\ given' = Nothing
  /\ UNCHANGED <<file, net, reads, setBddOrder, process>>

(* CirMgr::setBddOrder: inputs, latch outputs, names of the latch inputs,   *)
(* and the constant.                                                        *)
LayOut(c, mode) ==
  LET ro == InMode(mode, c.ro)
      ri == InMode(mode, c.ri)
      piOrder == PiOrder(c, mode)
      base == Len(c.pi)
  IN  /\ bddArr' = [i \in ToSet(piOrder) |-> Var(CHOOSE k \in DOMAIN piOrder : piOrder[k] = i)]
                     @@ [i \in ToSet(ro) |-> Var(base + CHOOSE k \in DOMAIN ro : ro[k] = i)]
                     @@ (0 :> {})
      /\ nsLevel' = [i \in ToSet(ri) |->
                       base + Len(ro) + CHOOSE k \in DOMAIN ri : ri[k] = i]

(* BSETOrder: refused if the flag is set; otherwise the manager is made     *)
(* again with the supports it has.  It is not asked whether there is a      *)
(* circuit.                                                                 *)
BSetOrder(mode) ==
  /\ Running
  /\ ~setBddOrder
  /\ IF net = NoNet
     THEN process' = "no_circuit" /\ UNCHANGED <<setBddOrder, orderedFor>> /\ ForgetBdds
     ELSE /\ UNCHANGED process
          /\ IF Len(net.pi) + 2 * Len(net.ro) <= supports
             THEN setBddOrder' = TRUE /\ orderedFor' = reads /\ LayOut(net, mode)
             ELSE UNCHANGED setBddOrder /\ orderedFor' = 0 /\ ForgetBdds
  /\ given' = Nothing
  /\ UNCHANGED <<file, net, reads, supports>>

(***************************************************************************)
(* buildBdd: over the cone of a gate, the functions that are not there yet. *)
(* A null operand brings an AND down; passed on, it stays null, or becomes  *)
(* the complemented null, which counts as a BDD.                            *)
(***************************************************************************)
(* Slip: the inversion on the edge is lost.                                  *)
OperandPlain(arr, l) == arr[l.id]

IsBdd(arr, i) == i \in DOMAIN arr /\ arr[i] # NullEdge
Operand(arr, l) == IF l.inv THEN Assign \ arr[l.id] ELSE arr[l.id]

BuildGate(c, b, i) ==
  LET g == c.gate[i]
      put(v) == [b EXCEPT !.arr = @ @@ (i :> v)]
  IN  IF b.died THEN b
      ELSE CASE g.type = "and" ->
                  IF \A k \in 1 .. 2 : IsBdd(b.arr, g.in[k].id)
                  THEN put(Operand(b.arr, g.in[1]) \intersect Operand(b.arr, g.in[2]))
                  ELSE [b EXCEPT !.died = TRUE]
             [] g.type \in {"po", "ri"} ->
                  IF IsBdd(b.arr, g.in[1].id) THEN put(Operand(b.arr, g.in[1]))
                  ELSE IF (g.in[1].id \in DOMAIN b.arr) # g.in[1].inv THEN put(NullEdge)
                  ELSE b
             [] OTHER -> b

BuildBdd(c, b, root) == FoldLeft(LAMBDA x, i : BuildGate(c, x, i), b, DfsFrom(c, <<root>>))

Unbuilt == [arr |-> bddArr, died |-> FALSE]

Built(b) ==
  /\ bddArr' = b.arr
  /\ process' = IF b.died THEN "null_edge" ELSE process
  /\ given' = Nothing
  /\ UNCHANGED <<file, net, reads, supports, setBddOrder, orderedFor, nsLevel>>

(* BCONStruct -All, buildNtkBdd: the outputs, then the latch inputs that    *)
(* have no BDD yet.                                                         *)
BConstructAll ==
  LET outputs == FoldLeft(LAMBDA b, i : BuildBdd(net, b, i), Unbuilt, net.po)
  IN  /\ Running
      /\ setBddOrder
      /\ Built(FoldLeft(LAMBDA b, i : IF i \in DOMAIN b.arr THEN b ELSE BuildBdd(net, b, i),
                        outputs, net.ri))

(* BCONStruct -Gateid (an output of -Output is a gate too): the id is only  *)
(* compared with the number of ids.                                         *)
BConstructGate(i) ==
  /\ Running
  /\ setBddOrder
  /\ i < Tots(net)
  /\ Cardinality(DOMAIN bddArr) <= MaxFiled
  /\ IF i \in DOMAIN net.gate THEN Built(BuildBdd(net, Unbuilt, i))
     ELSE /\ process' = "null_gate"
          /\ given' = Nothing
          /\ UNCHANGED <<file, net, reads, bddVars>>

(* PDR hands the circuit to ABC.                                            *)
Pdr ==
  /\ Running
  /\ net # NoNet
  /\ given' = [kind |-> "network", is |-> CirToAig(net)]
  /\ UNCHANGED <<file, net, reads, bddVars, process>>

(* What reorderVerilogInputDecls may emit: the inputs that have a name, in  *)
(* the order asked for; then the others as an unordered map yields them.    *)
Declarations(c, mode) ==
  LET named == SelectSeq(PiOrder(c, mode), LAMBDA i : c.gate[i].named)
  IN  {named \o rest : rest \in SetToSeqs(ToSet(c.pi) \ ToSet(named))}

(* CIRWrite -Verilog -InputOrder mode.                                      *)
CirWriteVerilog(mode) ==
  /\ Running
  /\ net # NoNet
  /\ \E inputs \in Declarations(net, mode) :
       given' = [kind |-> "verilog", mode |-> mode, inputs |-> inputs]
  /\ UNCHANGED <<file, net, reads, bddVars, process>>

GateIds == IF net = NoNet THEN {} ELSE 0 .. Tots(net) - 1

Next ==
  \/ \E f \in Files, replace \in BOOLEAN : CirRead(f, replace)
  \/ \E n \in SupportCounts : BReset(n)
  \/ \E mode \in Modes : BSetOrder(mode)
  \/ BConstructAll
  \/ \E i \in GateIds : BConstructGate(i)
  \/ Pdr
  \/ \E mode \in Modes : CirWriteVerilog(mode)

Spec == Init /\ [][Next]_vars

-----------------------------------------------------------------------------
(* The value of a variable of a file, under values for inputs and latches.  *)
RECURSIVE FileValue(_, _, _, _)
FileValue(f, v, x, s) ==
  LET n == NumLatches(f)
      of(l) == FileValue(f, l.id, x, s) # l.inv
  IN  CASE v = 0 -> FALSE
        [] v \in 1 .. f.pis -> x[v]
        [] v \in f.pis + 1 .. f.pis + n -> s[v - f.pis]
        [] OTHER -> LET a == f.and[v - f.pis - n] IN of(a[1]) /\ of(a[2])

(* The value of a gate of the circuit.                                      *)
RECURSIVE GateValue(_, _, _, _)
GateValue(c, i, x, s) ==
  LET g == c.gate[i]
      of(l) == GateValue(c, l.id, x, s) # l.inv
  IN  CASE g.type = "const0" -> FALSE
        [] g.type = "pi" -> x[CHOOSE k \in DOMAIN c.pi : c.pi[k] = i]
        [] g.type = "ro" -> s[CHOOSE k \in DOMAIN c.ro : c.ro[k] = i]
        [] g.type \in {"po", "ri"} -> of(g.in[1])
        [] g.type = "and" -> of(g.in[1]) /\ of(g.in[2])

Inputs(n) == [1 .. n -> BOOLEAN]

(* One output or latch for each of the file's, with the function it has     *)
(* there: no latch added by ABC is left, none is lost, none is mixed up.    *)
ReadIsFile ==
  net # NoNet =>
    /\ Len(net.pi) = file.pis
    /\ Len(net.ro) = NumLatches(file) /\ Len(net.ri) = NumLatches(file)
    /\ Len(net.po) = Len(file.po)
    /\ \A x \in Inputs(file.pis), s \in Inputs(NumLatches(file)) :
         /\ \A k \in DOMAIN file.po :
              GateValue(net, net.po[k], x, s) =
                (FileValue(file, file.po[k].id, x, s) # file.po[k].inv)
         /\ \A k \in DOMAIN file.ri :
              GateValue(net, net.ri[k], x, s) =
                (FileValue(file, file.ri[k].id, x, s) # file.ri[k].inv)

(* The level of a gate that stands for a variable.                          *)
LevelOfGate(i) == CHOOSE l \in 1 .. Levels : bddArr[i] = Var(l)

(* Every BDD filed for a gate is the gate's function, whatever was built    *)
(* before it and in whatever order, as long as the variables were laid out  *)
(* for the circuit that is there; and a latch has the same place in the     *)
(* blocks of current and next states, on which ns_to_cs relies.             *)
BddsAreGates ==
  orderedFor = reads /\ reads > 0 =>
    LET piAt == [k \in DOMAIN net.pi |-> LevelOfGate(net.pi[k])]
        roAt == [k \in DOMAIN net.ro |-> LevelOfGate(net.ro[k])]
        x(a) == [k \in DOMAIN piAt |-> a[piAt[k]]]
        s(a) == [k \in DOMAIN roAt |-> a[roAt[k]]]
    IN  /\ process # "null_edge"
        /\ \A k \in DOMAIN net.ri : nsLevel[net.ri[k]] = roAt[k] + Len(net.ro)
        /\ \A i \in DOMAIN bddArr :
             bddArr[i] = {a \in Assign : GateValue(net, i, x(a), s(a))}

(* A network and a circuit have the same outputs and next states; every AND *)
(* of the network reads what comes before it, and no literal is of a node   *)
(* that is not there.                                                       *)
SameFunctions(f, c) ==
  /\ f.pis = Len(c.pi)
  /\ \A k \in DOMAIN f.and : \A j \in 1 .. 2 : f.and[k][j].id < f.pis + NumLatches(f) + k
  /\ \A l \in ToSet(f.po \o f.ri) : l.id <= f.pis + NumLatches(f) + Len(f.and)
  /\ \A x \in Inputs(f.pis), s \in Inputs(NumLatches(f)) :
       /\ \A k \in DOMAIN c.po :
            (FileValue(f, f.po[k].id, x, s) # f.po[k].inv) = GateValue(c, c.po[k], x, s)
       /\ \A k \in DOMAIN c.ri :
            (FileValue(f, f.ri[k].id, x, s) # f.ri[k].inv) = GateValue(c, c.ri[k], x, s)

(* What ABC's PDR is given has the functions of the circuit it was made of, *)
(* though reorderGateId and cirToAig number its gates anew.                 *)
NetworkIsCircuit == given.kind = "network" => SameFunctions(given.is, net)

=============================================================================
