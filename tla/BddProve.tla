------------------------------ MODULE BddProve ------------------------------
(***************************************************************************)
(* The BDD-based assertion checker of src/prove: PINITialstate,            *)
(* PTRansrelation, PIMAGe, PCHECKProperty, on top of the BDD variables     *)
(* that BSETOrder lays out and the gate functions BCONStruct -All builds.  *)
(*                                                                         *)
(* A BDD is abstracted to the Boolean function it stands for: the set of   *)
(* the assignments of the support levels that make it true.  The levels    *)
(* are those of CirMgr::setBddOrder: the primary inputs at the bottom,     *)
(* then the current-state variables (RO gates), then the next-state        *)
(* variables (the "_ns" names of the RI gates).                            *)
(***************************************************************************)
EXTENDS Naturals, Sequences

CONSTANTS
  NPi,        \* number of primary inputs     (cirMgr->getNumPIs())
  NL,         \* number of latches            (cirMgr->getNumLATCHs())
  NPo,        \* number of primary outputs    (cirMgr->getNumPOs())
  Circuits,   \* the circuits that may have been read
  MaxLevel,   \* bound: the largest -Next argument of a PIMAGe command
  NullNode    \* what size_t(0) points to: no assignment makes sense of it

Level   == 1 .. NPi + 2 * NL
Assign  == [Level -> BOOLEAN]
Bdd     == SUBSET Assign
State   == [1 .. NL -> BOOLEAN]
Input   == [1 .. NPi -> BOOLEAN]
Outputs == 1 .. NPo

Circuit == [delta : [State \X Input -> State],
            mon   : [Outputs -> SUBSET (State \X Input)]]

ASSUME SizesAssumption    == NPi \in Nat /\ NL \in Nat /\ NPo \in Nat
ASSUME CircuitsAssumption == Circuits \subseteq Circuit
ASSUME MaxLevelAssumption == MaxLevel \in Nat
ASSUME NullAssumption     == NullNode \notin Assign

(* The null edge is not a BDD. *)
NoBdd == {NullNode}

(* Where setBddOrder puts the variables. *)
CsLevel(i) == NPi + i
NsLevel(i) == NPi + NL + i

InputOf(a) == [j \in 1 .. NPi |-> a[j]]
StateOf(a) == [i \in 1 .. NL |-> a[CsLevel(i)]]
NextOf(a)  == [i \in 1 .. NL |-> a[NsLevel(i)]]

One == Assign

VARIABLES
  ckt,          \* the circuit in cirMgr
  setBddOrder,  \* the global flag of bddCmd.cpp: an order has been set
  ordered,      \* _bddArr and _bddMap hold the BDDs of the variables
  wide,         \* the manager was made with supports enough for the circuit
  built,        \* the POs and RIs whose BDDs _bddArr holds
  initState,    \* _initState
  tr,           \* _tr
  reachStates,  \* _reachStates
  isFixed,      \* _isFixed
  todo,         \* iterations left to the PIMAGe in progress, 0 if none is
  process,      \* "running", or what brought the process down
  verdict       \* history: the last line PCHECKProperty printed

proofVars == <<initState, tr, reachStates, isFixed>>
vars == <<ckt, setBddOrder, ordered, wide, built, initState, tr, reachStates,
          isFixed, todo, process, verdict>>

(***************************************************************************)
(* The functions of the circuit, as BCONStruct leaves them.                *)
(***************************************************************************)
CsVar(i)  == {a \in Assign : a[CsLevel(i)]}
NsVar(i)  == {a \in Assign : a[NsLevel(i)]}
RiBdd(i)  == {a \in Assign : ckt.delta[<<StateOf(a), InputOf(a)>>][i]}
PoBdd(o)  == {a \in Assign : <<StateOf(a), InputOf(a)>> \in ckt.mon[o]}

(* init &= ~cs over the latches. *)
InitialBdd == {a \in Assign : \A i \in 1 .. NL : a \notin CsVar(i)}

(* tr &= ~(nsVar ^ f) over the latches. *)
TransBdd == {a \in Assign : \A i \in 1 .. NL : (a \in NsVar(i)) <=> (a \in RiBdd(i))}

(* Slip: the current set is not conjoined with the transition relation.     *)
FindNsOfAll(cs) ==
  LET img == {NextOf(b) : b \in tr}
  IN  {a \in Assign : NextOf(a) \in img}

(* find_ns: conjoin with _tr, then exist(lv) for the PI and CS levels.  The *)
(* loop over lv quantifies the whole block.                                 *)
FindNs(cs) ==
  LET img == {NextOf(b) : b \in cs \cap tr}
  IN  {a \in Assign : NextOf(a) \in img}

(* Slip: the NS block stays where it is, as after a refused nodeMove.        *)
NsToCsUnmoved(ns) == ns

(* ns_to_cs: nodeMove(NPi + NL + 1, NPi + 1) moves the NS block onto the CS *)
(* block; without latches there is nothing to move.                         *)
NsToCs(ns) ==
  IF NL = 0 THEN ns
  ELSE LET img == {NextOf(b) : b \in ns}
       IN  {a \in Assign : StateOf(a) \in img}

(* nodeMoveRecur takes the children of the node it is given before it asks  *)
(* what that node is; the terminal has none.                                *)
MoveDereferencesNull(ns) == NL > 0 /\ ns = One

ReachState == IF reachStates = <<>> THEN initState ELSE reachStates[Len(reachStates)]

NoVerdict == [out |-> 0, ans |-> "none", final |-> FALSE, depth |-> 0]

Depth == IF reachStates = <<>> THEN 0 ELSE Len(reachStates) - 1

-----------------------------------------------------------------------------
Init ==
  /\ ckt \in Circuits
  /\ setBddOrder = FALSE
  /\ ordered = FALSE
  /\ wide \in BOOLEAN
  /\ built = {}
  /\ initState = NoBdd
  /\ tr = NoBdd
  /\ reachStates = <<>>
  /\ isFixed = FALSE
  /\ todo = 0
  /\ process = "running"
  /\ verdict = NoVerdict

(* One command at a time, in a process that is alive. *)
Idle == todo = 0 /\ process = "running"

ResetProof ==
  /\ initState' = NoBdd
  /\ tr' = NoBdd
  /\ reachStates' = <<>>
  /\ isFixed' = FALSE

(* BRESET: BddMgrV::init, which resets everything the manager holds and     *)
(* does not touch the flag of bddCmd.cpp.                                    *)
BReset(enough) ==
  /\ Idle
  /\ wide' = enough
  /\ ordered' = FALSE
  /\ built' = {}
  /\ ResetProof
  /\ UNCHANGED <<ckt, setBddOrder, todo, process, verdict>>

(* BSETOrder: refused once an order has been set; otherwise restart(), which *)
(* keeps the number of supports, and the variables of the circuit are laid   *)
(* out if there are supports enough for them.                                *)
BSetOrder ==
  /\ Idle
  /\ ~setBddOrder
  /\ setBddOrder' = wide
  /\ ordered' = wide
  /\ built' = {}
  /\ ResetProof
  /\ UNCHANGED <<ckt, wide, todo, process, verdict>>

Gates == {<<"PO", o>> : o \in Outputs} \union {<<"RI", i>> : i \in 1 .. NL}

(* BCONStruct -All, -Output or -Gateid, once the variables are there: what   *)
(* has been built is not built again.                                        *)
BConstruct(gates) ==
  /\ Idle
  /\ setBddOrder
  /\ ordered
  /\ built' = built \union gates
  /\ UNCHANGED <<ckt, setBddOrder, ordered, wide, initState, tr, reachStates,
                 isFixed, todo, process, verdict>>

(* BRESET took the variables away and left the flag: the gate functions are  *)
(* built from null edges.  The first AND gate dereferences one; a circuit in *)
(* which none is met (delta and mon do not tell) stays without functions.    *)
BConstructOnNull ==
  /\ Idle
  /\ setBddOrder
  /\ ~ordered
  /\ process' \in {"running", "null_edge"}
  /\ UNCHANGED <<ckt, setBddOrder, ordered, wide, built, initState, tr,
                 reachStates, isFixed, todo, verdict>>

(* Slip: _isFixed survives a new PINITialstate.                              *)
PInitialStateStale ==
  /\ Idle
  /\ reachStates' = <<>>
  /\ initState' = IF ordered \/ NL = 0 THEN InitialBdd ELSE NoBdd
  /\ UNCHANGED <<ckt, setBddOrder, ordered, wide, built, tr, isFixed, todo,
                 process, verdict>>

(* PINITialstate: the search is forgotten first; without the RO variables    *)
(* the initial state is left null.                                           *)
PInitialState ==
  /\ Idle
  /\ isFixed' = FALSE
  /\ reachStates' = <<>>
  /\ initState' = IF ordered \/ NL = 0 THEN InitialBdd ELSE NoBdd
  /\ UNCHANGED <<ckt, setBddOrder, ordered, wide, built, tr, todo, process, verdict>>

RisBuilt == \A i \in 1 .. NL : <<"RI", i>> \in built

(* PTRansrelation: needs the variables and the RI functions of every latch,  *)
(* and leaves the search as it is.                                           *)
PTransRelation ==
  /\ Idle
  /\ tr' = IF (ordered /\ RisBuilt) \/ NL = 0 THEN TransBdd ELSE NoBdd
  /\ UNCHANGED <<ckt, setBddOrder, ordered, wide, built, initState, reachStates,
                 isFixed, todo, process, verdict>>

(* Slip: one iteration too many, for (i = 0; i <= level; ++i).               *)
PImageOneMore(level) ==
  /\ Idle
  /\ initState # NoBdd
  /\ tr # NoBdd
  /\ reachStates' = IF reachStates = <<>> THEN <<initState>> ELSE reachStates
  /\ isFixed' = FALSE
  /\ todo' = level + 1
  /\ UNCHANGED <<ckt, setBddOrder, ordered, wide, built, initState, tr,
                 process, verdict>>

(* PIMAGe -Next level: the checks of the command and the lines of            *)
(* buildPImage before its loop.                                              *)
PImage(level) ==
  /\ Idle
  /\ initState # NoBdd
  /\ tr # NoBdd
  /\ reachStates' = IF reachStates = <<>> THEN <<initState>> ELSE reachStates
  /\ isFixed' = FALSE
  /\ todo' = level
  /\ UNCHANGED <<ckt, setBddOrder, ordered, wide, built, initState, tr,
                 process, verdict>>

(* The three ways an iteration of the loop can end. *)
ImageCrashes ==
  /\ todo > 0
  /\ process = "running"
  /\ MoveDereferencesNull(FindNs(ReachState))
  /\ process' = "null_child"
  /\ UNCHANGED <<ckt, setBddOrder, ordered, wide, built, initState, tr,
                 reachStates, isFixed, todo, verdict>>

(* Slip: the new layer replaces the union.                                   *)
ImageGrowsByLayer ==
  LET ns   == FindNs(ReachState)
      next == NsToCs(ns)
  IN  /\ todo > 0
      /\ process = "running"
      /\ ~MoveDereferencesNull(ns)
      /\ next # ReachState
      /\ reachStates' = Append(reachStates, next)
      /\ todo' = todo - 1
      /\ UNCHANGED <<ckt, setBddOrder, ordered, wide, built, initState, tr,
                     isFixed, process, verdict>>

ImageGrows ==
  LET ns  == FindNs(ReachState)
      uni == ReachState \union NsToCs(ns)
  IN  /\ todo > 0
      /\ process = "running"
      /\ ~MoveDereferencesNull(ns)
      /\ uni # ReachState
      /\ reachStates' = Append(reachStates, uni)
      /\ todo' = todo - 1
      /\ UNCHANGED <<ckt, setBddOrder, ordered, wide, built, initState, tr,
                     isFixed, process, verdict>>

(* Slip: the break is missing, so the loop goes round the fixed point.       *)
ImageIsFixedNoBreak ==
  LET ns  == FindNs(ReachState)
      uni == ReachState \union NsToCs(ns)
  IN  /\ todo > 0
      /\ process = "running"
      /\ uni = ReachState
      /\ isFixed' = TRUE
      /\ UNCHANGED <<ckt, setBddOrder, ordered, wide, built, initState, tr,
                     reachStates, todo, process, verdict>>

ImageIsFixed ==
  LET ns  == FindNs(ReachState)
      uni == ReachState \union NsToCs(ns)
  IN  /\ todo > 0
      /\ process = "running"
      /\ ~MoveDereferencesNull(ns)
      /\ uni = ReachState
      /\ isFixed' = TRUE
      /\ todo' = 0
      /\ UNCHANGED <<ckt, setBddOrder, ordered, wide, built, initState, tr,
                     reachStates, process, verdict>>

ImageStep == ImageCrashes \/ ImageGrows \/ ImageIsFixed

(* PCHECKProperty -Output o: refused before there is a reached state; the    *)
(* monitor must have been constructed (assert(monitor())).                   *)
PCheckProperty(o) ==
  /\ Idle
  /\ ReachState # NoBdd
  /\ <<"PO", o>> \in built
  /\ verdict' = [out   |-> o,
                 ans   |-> IF ReachState \cap PoBdd(o) = {} THEN "safe" ELSE "violated",
                 final |-> isFixed,
                 depth |-> Depth]
  /\ UNCHANGED <<ckt, setBddOrder, ordered, wide, built, initState, tr,
                 reachStates, isFixed, todo, process>>

(* After a BRESET a monitor built from null edges may pass the assertion     *)
(* and be dereferenced behind it.                                            *)
PCheckAborts(o) ==
  /\ Idle
  /\ ReachState # NoBdd
  /\ <<"PO", o>> \notin built
  /\ \/ process' = "no_monitor"
     \/ setBddOrder /\ ~ordered /\ process' = "null_edge"
  /\ UNCHANGED <<ckt, setBddOrder, ordered, wide, built, initState, tr,
                 reachStates, isFixed, todo, verdict>>

Next ==
  \/ \E enough \in BOOLEAN : BReset(enough)
  \/ BSetOrder
  \/ BConstruct(Gates)
  \/ \E g \in Gates : BConstruct({g})
  \/ BConstructOnNull
  \/ PInitialState
  \/ PTransRelation
  \/ \E level \in 1 .. MaxLevel : PImage(level)
  \/ ImageStep
  \/ \E o \in Outputs : PCheckProperty(o) \/ PCheckAborts(o)

Spec == Init /\ [][Next]_vars

(* The loop of buildPImage runs in one thread: it goes on until it returns.  *)
FairSpec == Spec /\ WF_vars(ImageStep)

-----------------------------------------------------------------------------
(* The BDDs are functions of the levels or null, and the iterations left to *)
(* a PIMAGe never exceed its argument.                                      *)
TypeOK ==
  /\ ckt \in Circuits
  /\ setBddOrder \in BOOLEAN /\ ordered \in BOOLEAN
  /\ wide \in BOOLEAN /\ built \subseteq Gates /\ isFixed \in BOOLEAN
  /\ initState = NoBdd \/ initState \in Bdd
  /\ tr = NoBdd \/ tr \in Bdd
  /\ reachStates \in Seq(Bdd)
  /\ todo \in 0 .. MaxLevel
  /\ process \in {"running", "null_child", "no_monitor", "null_edge"}

Reset == [i \in 1 .. NL |-> FALSE]
StatesOf(f) == {StateOf(a) : a \in f}

Search ==
  INSTANCE Reachability WITH
    StateSet     <- State,
    InputSet     <- Input,
    OutputSet    <- Outputs,
    InitialState <- Reset,
    circuit      <- ckt,
    reach        <- IF ReachState = NoBdd THEN {} ELSE StatesOf(ReachState),
    fixed        <- isFixed,
    answer       <- [out |-> verdict.out, ans |-> verdict.ans, final |-> verdict.final]

(* The BDD engine is a breadth-first search of the circuit: every command   *)
(* of the session is a step of the abstract search or leaves it alone.      *)
ImplementsSearch == Search!ASpec

(* The states reachable in at most k steps. *)
Frame[k \in Nat] ==
  IF k = 0 THEN {Reset}
  ELSE LET before == Frame[k - 1] IN before \union Search!Post(ckt, before)

(* _reachStates holds the layers of the search: entry k is a function of    *)
(* the current-state levels alone and stands for exactly the states that    *)
(* k - 1 clock ticks can reach, however the PIMAGe commands were split.     *)
FramesExact ==
  \A k \in DOMAIN reachStates :
     reachStates[k] = {a \in Assign : StateOf(a) \in Frame[k - 1]}

(* Once the fixed point is announced, the last BDD is the reachable set.    *)
FixedIsReachable ==
  isFixed => StatesOf(ReachState) = Search!ReachableStates(ckt)

(* What a printed verdict means.  "violated" is always real, and a "safe"   *)
(* said after the fixed point was found speaks of every reachable state.    *)
VerdictSound ==
  /\ verdict.ans = "violated" =>
       Search!Raises(ckt, Search!ReachableStates(ckt), verdict.out)
  /\ verdict.ans = "safe" /\ verdict.final =>
       ~Search!Raises(ckt, Search!ReachableStates(ckt), verdict.out)

(* Any other "safe" is a bounded claim, about the frames built so far:      *)
(* runPCheckProperty does not look at _isFixed.                             *)
SafeToDepth ==
  verdict.ans = "safe" => ~Search!Raises(ckt, Frame[verdict.depth], verdict.out)

(* A PIMAGe in progress comes to an end (the process may go with it).       *)
PImageEnds == todo > 0 ~> (todo = 0 \/ process # "running")

(* docs/LN_BDD_ASSERTION_CHECKING_REPORT.md: when the reachable set stops   *)
(* growing the fixed point is reached.  Here: a search whose next layer     *)
(* adds nothing is never what brings the process down.                      *)
FixedPointIsReached ==
  process = "null_child" =>
    ~(NsToCs(FindNs(ReachState)) \subseteq ReachState)

=============================================================================
