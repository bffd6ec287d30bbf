--------------------------- MODULE BddProveProofs ---------------------------
(***************************************************************************)
(* Proofs about BddProve, for every number of inputs, latches and outputs  *)
(* and every circuit: the BDD levels are moved around correctly, so the    *)
(* engine searches the circuit; its fixed point is the reachable set; what *)
(* it says of an output after the fixed point is the truth.                *)
(***************************************************************************)
EXTENDS BddProve, Induction

(* The BDD over the current-state levels that stands for a set of states. *)
Lift(S) == {a \in Assign : StateOf(a) \in S}

(* The assignment with given inputs, current state and next state. *)
Join(x, s, t) ==
  [l \in Level |-> IF l <= NPi THEN x[l]
                   ELSE IF l <= NPi + NL THEN s[l - NPi]
                   ELSE t[l - NPi - NL]]

(* Every combination of inputs, current and next state is an assignment of  *)
(* the levels: the three blocks of setBddOrder do not overlap.              *)
LEMMA JoinParts ==
  ASSUME NEW x \in Input, NEW s \in State, NEW t \in State
  PROVE  /\ Join(x, s, t) \in Assign
         /\ InputOf(Join(x, s, t)) = x
         /\ StateOf(Join(x, s, t)) = s
         /\ NextOf(Join(x, s, t)) = t
<1> DEFINE a == Join(x, s, t)
<1>1. a \in Assign
  <2>1. ASSUME NEW l \in Level
        PROVE  (IF l <= NPi THEN x[l]
                   ELSE IF l <= NPi + NL THEN s[l - NPi]
                   ELSE t[l - NPi - NL]) \in BOOLEAN
    BY <2>1, SizesAssumption DEF Level, Input, State
  <2>2. QED
    BY <2>1 DEF Join, Assign
<1>2. ASSUME NEW j \in 1 .. NPi PROVE a[j] = x[j]
  BY <1>2, SizesAssumption DEF Join, Level
<1>3. ASSUME NEW i \in 1 .. NL PROVE a[CsLevel(i)] = s[i]
  BY <1>3, SizesAssumption DEF Join, Level, CsLevel
<1>4. ASSUME NEW i \in 1 .. NL PROVE a[NsLevel(i)] = t[i]
  BY <1>4, SizesAssumption DEF Join, Level, NsLevel
<1>5. InputOf(a) = x
  BY <1>2 DEF InputOf, Input
<1>6. StateOf(a) = s
  BY <1>3 DEF StateOf, State
<1>7. NextOf(a) = t
  BY <1>4 DEF NextOf, State
<1>8. QED
  BY <1>1, <1>5, <1>6, <1>7

(* The parts of an assignment are an input and two states. *)
LEMMA PartTypes ==
  ASSUME NEW a \in Assign
  PROVE  InputOf(a) \in Input /\ StateOf(a) \in State /\ NextOf(a) \in State
<1>1. ASSUME NEW j \in 1 .. NPi PROVE a[j] \in BOOLEAN
  BY <1>1, SizesAssumption DEF Assign, Level
<1>2. ASSUME NEW i \in 1 .. NL PROVE a[CsLevel(i)] \in BOOLEAN
  BY <1>2, SizesAssumption DEF Assign, Level, CsLevel
<1>3. ASSUME NEW i \in 1 .. NL PROVE a[NsLevel(i)] \in BOOLEAN
  BY <1>3, SizesAssumption DEF Assign, Level, NsLevel
<1>4. QED
  BY <1>1, <1>2, <1>3 DEF InputOf, StateOf, NextOf, Input, State

(* The circuit takes states to states. *)
LEMMA DeltaType ==
  ASSUME ckt \in Circuits, NEW s \in State, NEW x \in Input
  PROVE  ckt.delta[<<s, x>>] \in State
<1>1. ckt.delta \in [State \X Input -> State]
  BY CircuitsAssumption DEF Circuit
<1>2. QED
  BY <1>1

(* TransBdd relates an assignment's current state and input to its next     *)
(* state exactly as the circuit does.                                       *)
LEMMA TransIsDelta ==
  ASSUME ckt \in Circuits, NEW a \in Assign
  PROVE  a \in TransBdd <=> NextOf(a) = ckt.delta[<<StateOf(a), InputOf(a)>>]
<1> DEFINE d == ckt.delta[<<StateOf(a), InputOf(a)>>]
<1>1. d \in State
  BY PartTypes, DeltaType
<1>2. ASSUME NEW i \in 1 .. NL
      PROVE  /\ (a \in NsVar(i)) <=> NextOf(a)[i]
             /\ (a \in RiBdd(i)) <=> d[i]
  BY DEF NsVar, RiBdd, NextOf
<1>3. a \in TransBdd <=> \A i \in 1 .. NL : NextOf(a)[i] <=> d[i]
  BY <1>2 DEF TransBdd
<1>4. NextOf(a) \in State
  BY PartTypes
<1>5. ASSUME \A i \in 1 .. NL : NextOf(a)[i] <=> d[i]
      PROVE  NextOf(a) = d
  <2>1. \A i \in 1 .. NL : NextOf(a)[i] \in BOOLEAN /\ d[i] \in BOOLEAN
    BY <1>1, <1>4 DEF State
  <2>2. \A i \in 1 .. NL : NextOf(a)[i] = d[i]
    BY <1>5, <2>1
  <2>3. NextOf(a) = [i \in 1 .. NL |-> NextOf(a)[i]] /\ d = [i \in 1 .. NL |-> d[i]]
    BY <1>1, <1>4 DEF State
  <2>4. QED
    BY <2>2, <2>3, Zenon
<1>6. QED
  BY <1>3, <1>5

(* A successor is the successor of some state under some input. *)
LEMMA PostWitness ==
  ASSUME NEW S, NEW t \in Search!Post(ckt, S)
  PROVE  \E s \in S, x \in Input : t = ckt.delta[<<s, x>>]
BY DEF Search!Post

(* The successors of a set of states are states. *)
LEMMA PostType ==
  ASSUME ckt \in Circuits, NEW S \in SUBSET State
  PROVE  Search!Post(ckt, S) \in SUBSET State
BY DEF Search!Post

(* Lift loses nothing: the states of a lifted set are the set.              *)
LEMMA StatesOfLift ==
  ASSUME NEW S \in SUBSET State
  PROVE  StatesOf(Lift(S)) = S
<1>1. StatesOf(Lift(S)) \subseteq S
  BY DEF StatesOf, Lift
<1>2. ASSUME NEW s \in S PROVE s \in StatesOf(Lift(S))
  <2> DEFINE x == [j \in 1 .. NPi |-> FALSE]
  <2>1. x \in Input /\ s \in State
    BY DEF Input
  <2>2. Join(x, s, s) \in Assign /\ StateOf(Join(x, s, s)) = s
    BY <2>1, JoinParts
  <2>3. QED
    BY <2>2 DEF StatesOf, Lift
<1>3. QED
  BY <1>1, <1>2

(* find_ns computes the successors, in the next-state levels.               *)
LEMMA FindNsIsPost ==
  ASSUME ckt \in Circuits, tr = TransBdd, NEW S \in SUBSET State
  PROVE  FindNs(Lift(S)) = {a \in Assign : NextOf(a) \in Search!Post(ckt, S)}
<1> DEFINE img == {NextOf(b) : b \in Lift(S) \cap tr}
<1>1. img \subseteq Search!Post(ckt, S)
  <2> SUFFICES ASSUME NEW b \in Lift(S) \cap tr PROVE NextOf(b) \in Search!Post(ckt, S)
    OBVIOUS
  <2>1. b \in Assign /\ StateOf(b) \in S /\ InputOf(b) \in Input /\ NextOf(b) \in State
    BY PartTypes DEF Lift
  <2>2. NextOf(b) = ckt.delta[<<StateOf(b), InputOf(b)>>]
    BY <2>1, TransIsDelta
  <2>3. QED
    BY <2>1, <2>2 DEF Search!Post
<1>2. Search!Post(ckt, S) \subseteq img
  <2>1. ASSUME NEW s \in S, NEW x \in Input
        PROVE  ckt.delta[<<s, x>>] \in img
    <3> DEFINE t == ckt.delta[<<s, x>>]
               b == Join(x, s, t)
    <3>1. t \in State
      BY DeltaType
    <3>2. b \in Assign /\ InputOf(b) = x /\ StateOf(b) = s /\ NextOf(b) = t
      BY <3>1, JoinParts
    <3>3. b \in Lift(S)
      BY <3>2 DEF Lift
    <3>4. b \in tr
      BY <3>2, TransIsDelta
    <3>5. QED
      BY <3>2, <3>3, <3>4
  <2>2. ASSUME NEW t \in Search!Post(ckt, S) PROVE t \in img
    <3>1. PICK s \in S, x \in Input : t = ckt.delta[<<s, x>>]
      BY PostWitness
    <3>2. QED
      BY <2>1, <3>1
  <2>3. QED
    BY <2>2
<1>3. QED
  BY <1>1, <1>2 DEF FindNs

(* find_ns followed by ns_to_cs is one step of the search, back in the      *)
(* current-state levels.                                                    *)
LEMMA ImageIsPost ==
  ASSUME ckt \in Circuits, tr = TransBdd, NEW S \in SUBSET State
  PROVE  NsToCs(FindNs(Lift(S))) = Lift(Search!Post(ckt, S))
<1> DEFINE P == Search!Post(ckt, S)
           ns == FindNs(Lift(S))
<1>1. ns = {a \in Assign : NextOf(a) \in P}
  BY FindNsIsPost
<1>2. P \in SUBSET State
  BY PostType
<1>3. CASE NL = 0
  <2>1. ASSUME NEW a \in Assign PROVE StateOf(a) = NextOf(a)
    BY <1>3 DEF StateOf, NextOf
  <2>2. QED
    BY <1>1, <1>3, <2>1 DEF NsToCs, Lift
<1>4. CASE NL # 0
  <2> DEFINE img == {NextOf(b) : b \in ns}
  <2>1. img \subseteq P
    BY <1>1
  <2>2. ASSUME NEW p \in P PROVE p \in img
    <3> DEFINE x == [j \in 1 .. NPi |-> FALSE]
    <3>1. x \in Input /\ p \in State
      BY <1>2 DEF Input
    <3>2. Join(x, p, p) \in Assign /\ NextOf(Join(x, p, p)) = p
      BY <3>1, JoinParts
    <3>3. QED
      BY <1>1, <3>2
  <2>3. img = P
    BY <2>1, <2>2
  <2>4. NsToCs(ns) = {a \in Assign : StateOf(a) \in img}
    BY <1>4 DEF NsToCs
  <2>5. QED
    BY <2>3, <2>4 DEF Lift
<1>5. QED
  BY <1>3, <1>4

(***************************************************************************)
(* What the operators of the engine and of the search give back.           *)
(***************************************************************************)
LEMMA ResetType == Reset \in State
BY DEF Reset, State

\* The states of a BDD are states.
LEMMA StatesOfType ==
  ASSUME NEW f \in Bdd
  PROVE  StatesOf(f) \in SUBSET State
BY PartTypes DEF StatesOf, Bdd

\* The BDD of a set of states is a BDD.
LEMMA LiftType ==
  ASSUME NEW S
  PROVE  Lift(S) \in Bdd
BY DEF Lift, Bdd

(* The null edge is not the BDD of anything.                                *)
LEMMA NoBddIsNone == NoBdd \notin Bdd
BY NullAssumption DEF NoBdd, Bdd

\* The newest layer is a BDD once there is a layer.
LEMMA ReachStateType ==
  ASSUME TypeOK
  PROVE  /\ ReachState = NoBdd \/ ReachState \in Bdd
         /\ reachStates # <<>> => ReachState \in Bdd
<1>1. CASE reachStates = <<>>
  BY <1>1 DEF TypeOK, ReachState
<1>2. CASE reachStates # <<>>
  <2>1. Len(reachStates) \in 1 .. Len(reachStates)
    BY <1>2 DEF TypeOK
  <2>2. QED
    BY <1>2, <2>1 DEF TypeOK, ReachState
<1>3. QED
  BY <1>1, <1>2

(* PINITialstate conjoins the complements of the RO variables: what is left *)
(* is the all-zero state, under every input and next state.                 *)
LEMMA InitialIsReset == InitialBdd = Lift({Reset})
<1>1. ASSUME NEW a \in Assign
      PROVE  (\A i \in 1 .. NL : a \notin CsVar(i)) <=> StateOf(a) = Reset
  <2> DEFINE s == StateOf(a)
  <2>1. s \in State
    BY PartTypes
  <2>2. \A i \in 1 .. NL : (a \in CsVar(i)) <=> s[i]
    BY DEF CsVar, StateOf
  <2>3. ASSUME \A i \in 1 .. NL : ~s[i] PROVE s = Reset
    <3>1. \A i \in 1 .. NL : s[i] \in BOOLEAN
      BY <2>1 DEF State
    <3>2. \A i \in 1 .. NL : s[i] = FALSE
      BY <2>3, <3>1
    <3>3. s = [i \in 1 .. NL |-> s[i]]
      BY <2>1 DEF State
    <3>4. QED
      BY <3>2, <3>3, Zenon DEF Reset
  <2>4. ASSUME s = Reset PROVE \A i \in 1 .. NL : ~s[i]
    BY <2>4 DEF Reset
  <2>5. QED
    BY <2>2, <2>3, <2>4
<1>2. QED
  BY <1>1 DEF InitialBdd, Lift

\* The reset state is reachable.
LEMMA ResetReachable == Reset \in Search!ReachableStates(ckt)
BY ResetType DEF Search!ReachableStates, Search!Inductive

(* Every set that holds Reset and is closed under Post holds the reachable  *)
(* states.                                                                  *)
LEMMA ReachableLeast ==
  ASSUME NEW S \in SUBSET State, Reset \in S, Search!Post(ckt, S) \subseteq S
  PROVE  Search!ReachableStates(ckt) \subseteq S
BY DEF Search!ReachableStates, Search!Inductive

\* More states have more successors.
LEMMA PostMonotone ==
  ASSUME NEW S, NEW T, S \subseteq T
  PROVE  Search!Post(ckt, S) \subseteq Search!Post(ckt, T)
BY DEF Search!Post

(* A step from reachable states ends in reachable states.                   *)
LEMMA ReachableClosed ==
  ASSUME ckt \in Circuits,
         NEW S, S \subseteq Search!ReachableStates(ckt)
  PROVE  Search!Post(ckt, S) \subseteq Search!ReachableStates(ckt)
<1> SUFFICES ASSUME NEW t \in Search!Post(ckt, S),
                    NEW I \in SUBSET State, Search!Inductive(ckt, I)
             PROVE  t \in State /\ t \in I
  BY DEF Search!ReachableStates, Search!Post
<1>1. S \subseteq I
  BY DEF Search!ReachableStates
<1>2. Search!Post(ckt, S) \subseteq I
  BY <1>1, PostMonotone DEF Search!Inductive
<1>3. QED
  BY <1>2

(* What runPCheckProperty asks of two BDDs is what the search asks of its   *)
(* states.                                                                  *)
LEMMA ReportIsRaises ==
  ASSUME NEW S \in SUBSET State, NEW o
  PROVE  (Lift(S) \cap PoBdd(o) = {}) <=> ~Search!Raises(ckt, S, o)
<1>1. ASSUME NEW a \in Lift(S) \cap PoBdd(o) PROVE Search!Raises(ckt, S, o)
  <2>1. /\ a \in Assign /\ StateOf(a) \in S /\ InputOf(a) \in Input
        /\ <<StateOf(a), InputOf(a)>> \in ckt.mon[o]
    BY PartTypes DEF Lift, PoBdd
  <2>2. QED
    BY <2>1 DEF Search!Raises
<1>2. ASSUME NEW s \in S, NEW x \in Input, <<s, x>> \in ckt.mon[o]
      PROVE  Lift(S) \cap PoBdd(o) # {}
  <2> DEFINE a == Join(x, s, s)
  <2>1. a \in Assign /\ InputOf(a) = x /\ StateOf(a) = s
    BY JoinParts
  <2>2. a \in Lift(S) /\ a \in PoBdd(o)
    BY <1>2, <2>1 DEF Lift, PoBdd
  <2>3. QED
    BY <2>2
<1>3. QED
  BY <1>1, <1>2 DEF Search!Raises

-----------------------------------------------------------------------------
(***************************************************************************)
(* The inductive invariant.  Knowing that the fixed point is the reachable *)
(* set takes more than FixedIsReachable: every null-or-right object of the *)
(* engine, that the BDD searched from is a function of the current state   *)
(* alone, and that a PIMAGe in progress has what it needs.                 *)
(***************************************************************************)
RS == StatesOf(ReachState)

ObjectsOK ==
  /\ initState # NoBdd => initState = InitialBdd
  /\ tr # NoBdd => tr = TransBdd

ReachOK ==
  ReachState # NoBdd =>
    /\ ReachState = Lift(RS)
    /\ Reset \in RS
    /\ RS \subseteq Search!ReachableStates(ckt)

PendingOK ==
  todo > 0 =>
    /\ tr # NoBdd
    /\ reachStates # <<>>
    /\ ~isFixed

FixedOK ==
  isFixed =>
    /\ ReachState # NoBdd
    /\ Search!Post(ckt, RS) \subseteq RS

IInv == TypeOK /\ ObjectsOK /\ ReachOK /\ PendingOK /\ FixedOK /\ VerdictSound

(* Before its next iteration a PIMAGe looks at a lifted set of reachable    *)
(* states, and the union it computes is the lifted set of those states and  *)
(* their successors.                                                        *)
LEMMA ImageIsSearchStep ==
  ASSUME IInv, todo > 0
  PROVE  /\ ReachState # NoBdd
         /\ RS \in SUBSET State
         /\ RS \subseteq Search!ReachableStates(ckt)
         /\ Reset \in RS
         /\ ReachState \union NsToCs(FindNs(ReachState))
              = Lift(RS \union Search!Post(ckt, RS))
         /\ RS \union Search!Post(ckt, RS) \in SUBSET State
<1>1. ReachState \in Bdd /\ ReachState # NoBdd
  BY ReachStateType, NoBddIsNone DEF IInv, PendingOK
<1>2. RS \in SUBSET State
  BY <1>1, StatesOfType DEF RS
<1>3. ReachState = Lift(RS) /\ Reset \in RS /\ RS \subseteq Search!ReachableStates(ckt)
  BY <1>1 DEF IInv, ReachOK
<1>4. ckt \in Circuits /\ tr = TransBdd
  BY DEF IInv, TypeOK, PendingOK, ObjectsOK
<1>5. NsToCs(FindNs(ReachState)) = Lift(Search!Post(ckt, RS))
  BY <1>2, <1>3, <1>4, ImageIsPost
<1>6. Search!Post(ckt, RS) \in SUBSET State
  BY <1>2, <1>4, PostType
<1>7. Lift(RS) \union Lift(Search!Post(ckt, RS)) = Lift(RS \union Search!Post(ckt, RS))
  BY DEF Lift
<1>8. QED
  BY <1>1, <1>2, <1>3, <1>5, <1>6, <1>7

(* The states of the BDD PINITialstate leaves.                              *)
LEMMA InitialStates == StatesOf(InitialBdd) = {Reset} /\ InitialBdd = Lift({Reset})
BY InitialIsReset, StatesOfLift, ResetType

(* The empty search and the search of one layer.                            *)
LEMMA SmallSequences ==
  <<>> \in Seq(Bdd) /\ \A f \in Bdd : <<f>> \in Seq(Bdd) /\ <<f>> # <<>>
OBVIOUS

\* The invariant holds when the program starts.
LEMMA InitIInv == Init => IInv
<1> SUFFICES ASSUME Init PROVE IInv
  OBVIOUS
<1>1. TypeOK
  <2>1. reachStates \in Seq(Bdd) /\ todo \in 0 .. MaxLevel
    BY MaxLevelAssumption, SmallSequences DEF Init
  <2>2. QED
    BY <2>1 DEF Init, TypeOK
<1>2. ReachOK
  BY DEF Init, ReachOK, ReachState
<1>3. QED
  BY <1>1, <1>2 DEF Init, IInv, ObjectsOK, PendingOK, FixedOK, VerdictSound, NoVerdict

\* Every action keeps the invariant.
LEMMA NextIInv == IInv /\ [Next]_vars => IInv'
<1> SUFFICES ASSUME IInv, [Next]_vars PROVE IInv'
  OBVIOUS
<1> USE DEF IInv
<1>1. CASE (\E enough \in BOOLEAN : BReset(enough)) \/ BSetOrder
  <2>1. TypeOK'
    BY <1>1, SmallSequences DEF BReset, BSetOrder, ResetProof, TypeOK
  <2>2. reachStates' = <<>> /\ initState' = NoBdd /\ tr' = NoBdd /\ ~isFixed'
    BY <1>1 DEF BReset, BSetOrder, ResetProof
  <2>3. ReachOK'
    BY <2>2 DEF ReachOK, ReachState
  <2>4. QED
    BY <1>1, <2>1, <2>2, <2>3
    DEF BReset, BSetOrder, Idle, ObjectsOK, PendingOK, FixedOK, VerdictSound
<1>2. CASE (\E gates \in SUBSET Gates : BConstruct(gates)) \/ BConstructOnNull
  <2>1. TypeOK'
    BY <1>2 DEF BConstruct, BConstructOnNull, TypeOK
  <2>2. QED
    BY <1>2, <2>1 DEF BConstruct, BConstructOnNull, ObjectsOK, ReachOK, RS, ReachState,
                      PendingOK, FixedOK, VerdictSound, InitialBdd, TransBdd, RiBdd
<1>3. CASE PInitialState
  <2>1. InitialBdd \in Bdd
    BY InitialIsReset, LiftType
  <2>2. TypeOK'
    BY <1>3, <2>1, SmallSequences DEF PInitialState, TypeOK
  <2>3. reachStates' = <<>> /\ (initState' = NoBdd \/ initState' = InitialBdd) /\ ckt' = ckt
        /\ tr' = tr /\ ~isFixed' /\ todo' = 0 /\ verdict' = verdict
    BY <1>3 DEF PInitialState, Idle
  <2>4. ReachOK'
    <3>1. ReachState' = initState'
      BY <2>3 DEF ReachState
    <3>2. ASSUME initState' = InitialBdd
          PROVE  RS' = {Reset} /\ ReachState' = Lift({Reset})
      BY <3>1, <3>2, InitialStates DEF RS
    <3>3. QED
      BY <2>3, <3>1, <3>2, ResetReachable DEF ReachOK
  <2>5. QED
    BY <2>2, <2>3, <2>4 DEF ObjectsOK, PendingOK, FixedOK, VerdictSound, TransBdd, RiBdd
<1>4. CASE PTransRelation
  <2>1. TransBdd \in Bdd
    BY DEF TransBdd, Bdd
  <2>2. TypeOK'
    BY <1>4, <2>1 DEF PTransRelation, TypeOK
  <2>3. QED
    BY <1>4, <2>2 DEF PTransRelation, Idle, ObjectsOK, ReachOK, RS, ReachState, PendingOK,
                      FixedOK, VerdictSound, InitialBdd, TransBdd, RiBdd
<1>5. CASE \E level \in 1 .. MaxLevel : PImage(level)
  <2>1. PICK level \in 1 .. MaxLevel : PImage(level)
    BY <1>5
  <2>2. initState \in Bdd
    BY <2>1 DEF PImage, TypeOK
  <2>3. TypeOK' /\ reachStates' # <<>>
    <3>1. reachStates' \in Seq(Bdd) /\ reachStates' # <<>>
      BY <2>1, <2>2, SmallSequences DEF PImage, TypeOK
    <3>2. todo' \in 0 .. MaxLevel
      BY <2>1, MaxLevelAssumption DEF PImage
    <3>3. QED
      BY <2>1, <3>1, <3>2 DEF PImage, TypeOK
  <2>4. ReachState' = ReachState
    BY <2>1 DEF PImage, ReachState
  <2>5. QED
    BY <2>1, <2>3, <2>4 DEF PImage, ObjectsOK, ReachOK, RS, PendingOK,
                            FixedOK, VerdictSound, InitialBdd, TransBdd, RiBdd
<1>6. CASE ImageCrashes
  <2>1. TypeOK'
    BY <1>6 DEF ImageCrashes, TypeOK
  <2>2. QED
    BY <1>6, <2>1 DEF ImageCrashes, ObjectsOK, ReachOK, RS, ReachState, PendingOK,
                      FixedOK, VerdictSound, InitialBdd, TransBdd, RiBdd
<1>7. CASE ImageGrows
  <2> DEFINE uni == ReachState \union NsToCs(FindNs(ReachState))
             S   == RS \union Search!Post(ckt, RS)
  <2>1. todo > 0 /\ reachStates' = Append(reachStates, uni) /\ todo' = todo - 1
        /\ UNCHANGED <<ckt, setBddOrder, ordered, wide, built, initState, tr,
                       isFixed, process, verdict>>
    BY <1>7 DEF ImageGrows
  <2>2. uni = Lift(S) /\ S \in SUBSET State /\ Reset \in S
        /\ RS \subseteq Search!ReachableStates(ckt)
    BY <2>1, ImageIsSearchStep
  <2>3. uni \in Bdd
    BY <2>2, LiftType
  <2>4. TypeOK'
    BY <2>1, <2>3, MaxLevelAssumption DEF TypeOK
  <2>5. ReachState' = uni /\ reachStates' # <<>>
    BY <2>1, <2>3 DEF TypeOK, ReachState
  <2>6. RS' = S
    BY <2>2, <2>5, StatesOfLift DEF RS
  <2>7. S \subseteq Search!ReachableStates(ckt)
    BY <2>2, ReachableClosed DEF TypeOK
  <2>8. ReachOK'
    BY <2>1, <2>2, <2>5, <2>6, <2>7 DEF ReachOK
  <2>9. QED
    BY <2>1, <2>4, <2>5, <2>8 DEF ObjectsOK, PendingOK, FixedOK, VerdictSound,
                                  InitialBdd, TransBdd, RiBdd
<1>8. CASE ImageIsFixed
  <2>1. todo > 0 /\ todo' = 0 /\ isFixed'
        /\ ReachState \union NsToCs(FindNs(ReachState)) = ReachState
        /\ UNCHANGED <<ckt, setBddOrder, ordered, wide, built, initState, tr,
                       reachStates, process, verdict>>
    BY <1>8 DEF ImageIsFixed
  <2>2. TypeOK'
    BY <1>8, MaxLevelAssumption DEF ImageIsFixed, TypeOK
  <2>3. ReachState' = ReachState /\ RS' = RS
    BY <2>1 DEF ReachState, RS
  <2>4. Search!Post(ckt, RS) \subseteq RS /\ ReachState # NoBdd
    <3>1. ReachState = Lift(RS \union Search!Post(ckt, RS))
      BY <2>1, ImageIsSearchStep
    <3>2. RS = RS \union Search!Post(ckt, RS)
      BY <2>1, <3>1, ImageIsSearchStep, StatesOfLift DEF RS
    <3>3. QED
      BY <2>1, <3>2, ImageIsSearchStep
  <2>5. QED
    BY <2>1, <2>2, <2>3, <2>4 DEF ObjectsOK, ReachOK, PendingOK, FixedOK, VerdictSound,
                                  InitialBdd, TransBdd, RiBdd
<1>9. CASE \E o \in Outputs : PCheckProperty(o)
  <2>1. PICK o \in Outputs : PCheckProperty(o)
    BY <1>9
  <2>2. TypeOK' /\ ObjectsOK' /\ ReachOK' /\ PendingOK' /\ FixedOK'
    BY <2>1 DEF PCheckProperty, TypeOK, ObjectsOK, ReachOK, RS, ReachState, PendingOK,
                FixedOK, InitialBdd, TransBdd, RiBdd
  <2>3. ReachState # NoBdd /\ ReachState = Lift(RS)
        /\ RS \subseteq Search!ReachableStates(ckt) /\ Reset \in RS
    BY <2>1 DEF PCheckProperty, ReachOK
  <2>4. RS \in SUBSET State
    BY <2>3, ReachStateType, StatesOfType DEF RS
  <2>5. verdict'.out = o /\ verdict'.final = isFixed
        /\ verdict'.ans = IF Search!Raises(ckt, RS, o) THEN "violated" ELSE "safe"
    BY <2>1, <2>3, <2>4, ReportIsRaises DEF PCheckProperty
  <2>6. isFixed => Search!ReachableStates(ckt) \subseteq RS
    BY <2>3, <2>4, ReachableLeast DEF FixedOK
  <2>7. Search!Raises(ckt, RS, o) => Search!Raises(ckt, Search!ReachableStates(ckt), o)
    BY <2>3 DEF Search!Raises
  <2>8. isFixed => (Search!Raises(ckt, Search!ReachableStates(ckt), o)
                      => Search!Raises(ckt, RS, o))
    BY <2>6 DEF Search!Raises
  <2>9. ckt' = ckt
    BY <2>1 DEF PCheckProperty
  <2>10. VerdictSound'
    BY <2>5, <2>7, <2>8, <2>9 DEF VerdictSound
  <2>11. QED
    BY <2>2, <2>10
<1>10. CASE \E o \in Outputs : PCheckAborts(o)
  <2>1. TypeOK'
    BY <1>10 DEF PCheckAborts, TypeOK
  <2>2. QED
    BY <1>10, <2>1 DEF PCheckAborts, ObjectsOK, ReachOK, RS, ReachState, PendingOK,
                       FixedOK, VerdictSound, InitialBdd, TransBdd, RiBdd
<1>11. CASE UNCHANGED vars
  BY <1>11 DEF vars, TypeOK, ObjectsOK, ReachOK, RS, ReachState, PendingOK,
               FixedOK, VerdictSound, InitialBdd, TransBdd, RiBdd
<1>12. QED
  BY <1>1, <1>2, <1>3, <1>4, <1>5, <1>6, <1>7, <1>8, <1>9, <1>10, <1>11 DEF Next, ImageStep

-----------------------------------------------------------------------------
\* The invariant holds in every reachable state.
LEMMA InvariantHolds == Spec => []IInv
<1>1. Init => IInv
  BY InitIInv
<1>2. IInv /\ [Next]_vars => IInv'
  BY NextIInv
<1>3. QED
  BY <1>1, <1>2, PTL DEF Spec

(* The engine's variables keep their types: in particular a null edge never *)
(* enters _reachStates, whatever the order of the commands.                 *)
THEOREM TypeCorrect == Spec => []TypeOK
<1>1. IInv => TypeOK
  BY DEF IInv
<1>2. QED
  BY <1>1, InvariantHolds, PTL

(* buildPImage's fixed point: when _isFixed is set, the last BDD stands for *)
(* exactly the states the circuit can reach from reset.                     *)
THEOREM FixedPointCorrect == Spec => []FixedIsReachable
<1>1. IInv => FixedIsReachable
  <2> SUFFICES ASSUME IInv, isFixed PROVE RS = Search!ReachableStates(ckt)
    BY DEF FixedIsReachable, RS
  <2>1. ReachState # NoBdd /\ Search!Post(ckt, RS) \subseteq RS
    BY DEF IInv, FixedOK
  <2>2. Reset \in RS /\ RS \subseteq Search!ReachableStates(ckt)
    BY <2>1 DEF IInv, ReachOK
  <2>3. RS \in SUBSET State
    BY <2>1, ReachStateType, StatesOfType DEF IInv, RS
  <2>4. QED
    BY <2>1, <2>2, <2>3, ReachableLeast
<1>2. QED
  BY <1>1, InvariantHolds, PTL

(* What PCHECKProperty prints: "violated" is always real, "safe" after the  *)
(* fixed point speaks of every reachable state.                             *)
THEOREM VerdictCorrect == Spec => []VerdictSound
<1>1. IInv => VerdictSound
  BY DEF IInv
<1>2. QED
  BY <1>1, InvariantHolds, PTL

-----------------------------------------------------------------------------
(***************************************************************************)
(* The engine implements the breadth-first search of module Reachability.  *)
(***************************************************************************)

(* The set of states the search has seen, as the refinement maps it.        *)
Seen == IF ReachState = NoBdd THEN {} ELSE StatesOf(ReachState)
Said == [out |-> verdict.out, ans |-> verdict.ans, final |-> verdict.final]

\* The start of the program is a start of the abstract search.
LEMMA InitRefines == Init => Search!AInit
<1> SUFFICES ASSUME Init PROVE Search!AInit
  OBVIOUS
<1>1. Seen = {}
  BY DEF Init, Seen, ReachState
<1>2. Said = Search!NoAnswer
  BY DEF Init, Said, NoVerdict, Search!NoAnswer
<1>3. QED
  BY <1>1, <1>2 DEF Init, Search!AInit, Seen, Said

(* A search that has begun has seen the reset state.                        *)
LEMMA SeenIsRS ==
  ASSUME IInv, ReachState # NoBdd
  PROVE  Seen = RS /\ Seen # {} /\ RS \in SUBSET State
BY ReachStateType, StatesOfType DEF IInv, ReachOK, Seen, RS

\* Every action is an action of the abstract search, or a stutter.
LEMMA NextRefines == IInv /\ [Next]_vars => [Search!ANext]_(Search!avars)
<1> SUFFICES ASSUME IInv, [Next]_vars PROVE [Search!ANext]_(Search!avars)
  OBVIOUS
<1> USE DEF Seen, Said
<1>1. CASE (\E enough \in BOOLEAN : BReset(enough)) \/ BSetOrder
  <2>1. ReachState' = NoBdd
    BY <1>1 DEF BReset, BSetOrder, ResetProof, ReachState
  <2>2. Search!ATakeDown
    BY <1>1, <2>1 DEF BReset, BSetOrder, ResetProof, Search!ATakeDown
  <2>3. QED
    BY <2>2 DEF Search!ANext
<1>2. CASE (\E gates \in SUBSET Gates : BConstruct(gates)) \/ BConstructOnNull
  BY <1>2 DEF BConstruct, BConstructOnNull, ReachState, Search!avars
<1>3. CASE PInitialState
  <2>1. ReachState' = initState' /\ ~isFixed' /\ UNCHANGED <<ckt, verdict>>
        /\ initState' \in {InitialBdd, NoBdd}
    BY <1>3 DEF PInitialState, ReachState
  <2>2. CASE initState' = NoBdd
    <3>1. Search!ATakeDown
      BY <1>3, <2>1, <2>2 DEF PInitialState, Search!ATakeDown
    <3>2. QED
      BY <3>1 DEF Search!ANext
  <2>3. CASE initState' = InitialBdd
    <3>1. InitialBdd # NoBdd
      BY InitialIsReset, LiftType, NoBddIsNone
    <3>2. Seen' = {Reset}
      BY <2>1, <2>3, <3>1, InitialStates
    <3>3. Search!ASetUp
      BY <1>3, <2>1, <3>2 DEF PInitialState, Search!ASetUp
    <3>4. QED
      BY <3>3 DEF Search!ANext
  <2>4. QED
    BY <2>1, <2>2, <2>3
<1>4. CASE PTransRelation
  BY <1>4 DEF PTransRelation, ReachState, Search!avars
<1>5. CASE \E level \in 1 .. MaxLevel : PImage(level)
  <2>1. PICK level \in 1 .. MaxLevel : PImage(level)
    BY <1>5
  <2>2. ReachState' = ReachState
    BY <2>1 DEF PImage, ReachState
  <2>3. initState \in Bdd /\ ReachState # NoBdd
    BY <2>1, ReachStateType, NoBddIsNone DEF PImage, IInv, TypeOK, ReachState
  <2>4. Search!AForget
    BY <2>1, <2>2, <2>3, SeenIsRS DEF PImage, Search!AForget
  <2>5. QED
    BY <2>4 DEF Search!ANext
<1>6. CASE ImageCrashes
  BY <1>6 DEF ImageCrashes, ReachState, Search!avars
<1>7. CASE ImageGrows
  <2> DEFINE uni == ReachState \union NsToCs(FindNs(ReachState))
             S   == RS \union Search!Post(ckt, RS)
  <2>1. todo > 0 /\ uni # ReachState /\ reachStates' = Append(reachStates, uni)
        /\ UNCHANGED <<ckt, isFixed, verdict>>
    BY <1>7 DEF ImageGrows
  <2>2. uni = Lift(S) /\ S \in SUBSET State /\ ReachState # NoBdd /\ ReachState = Lift(RS)
    BY <2>1, ImageIsSearchStep DEF IInv, ReachOK
  <2>3. uni \in Bdd /\ uni # NoBdd
    BY <2>2, LiftType, NoBddIsNone
  <2>4. ReachState' = uni
    BY <2>1, <2>3 DEF IInv, TypeOK, ReachState
  <2>5. Seen' = S
    BY <2>2, <2>3, <2>4, StatesOfLift
  <2>6. S # RS
    BY <2>1, <2>2
  <2>7. ~isFixed
    BY <2>1 DEF IInv, PendingOK
  <2>8. Seen = RS /\ Seen # {}
    BY <2>2, SeenIsRS
  <2>9. Search!AGrow
    BY <2>1, <2>5, <2>6, <2>7, <2>8 DEF Search!AGrow, IInv, TypeOK
  <2>10. QED
    BY <2>9 DEF Search!ANext
<1>8. CASE ImageIsFixed
  <2>1. todo > 0 /\ isFixed' /\ isFixed' \in BOOLEAN /\ UNCHANGED <<ckt, reachStates, initState, verdict>>
    BY <1>8 DEF ImageIsFixed
  <2>2. FixedOK' /\ RS' = RS /\ ReachState' = ReachState
    BY <2>1, NextIInv DEF RS, ReachState, IInv
  <2>3. Search!Post(ckt, RS) \subseteq RS /\ ReachState # NoBdd
    BY <2>1, <2>2 DEF FixedOK
  <2>4. Search!AFix
    BY <1>8, <2>1, <2>2, <2>3, SeenIsRS DEF Search!AFix, ImageIsFixed
  <2>5. QED
    BY <2>4 DEF Search!ANext
<1>9. CASE \E o \in Outputs : PCheckProperty(o)
  <2>1. PICK o \in Outputs : PCheckProperty(o)
    BY <1>9
  <2>2. ReachState' = ReachState /\ ReachState # NoBdd
    BY <2>1 DEF PCheckProperty, ReachState
  <2>3. Seen = RS /\ Seen # {} /\ RS \in SUBSET State /\ ReachState = Lift(RS)
    BY <2>2, SeenIsRS DEF IInv, ReachOK
  <2>4. Said' = [out   |-> o,
                 ans   |-> IF Search!Raises(ckt, Seen, o) THEN "violated" ELSE "safe",
                 final |-> isFixed]
    BY <2>1, <2>3, ReportIsRaises DEF PCheckProperty
  <2>5. Search!AReport(o)
    BY <2>1, <2>2, <2>3, <2>4 DEF PCheckProperty, Search!AReport
  <2>6. QED
    BY <2>5 DEF Search!ANext
<1>10. CASE \E o \in Outputs : PCheckAborts(o)
  BY <1>10 DEF PCheckAborts, ReachState, Search!avars
<1>11. CASE UNCHANGED vars
  BY <1>11 DEF vars, ReachState, Search!avars
<1>12. QED
  BY <1>1, <1>2, <1>3, <1>4, <1>5, <1>6, <1>7, <1>8, <1>9, <1>10, <1>11 DEF Next, ImageStep

(* Every session of the prove commands is a breadth-first search of the     *)
(* circuit, told when to go on and when to report.                          *)
THEOREM EngineImplementsSearch == Spec => ImplementsSearch
<1>1. Init => Search!AInit
  BY InitRefines
<1>2. IInv /\ [Next]_vars => [Search!ANext]_(Search!avars)
  BY NextRefines
<1>3. QED
  BY <1>1, <1>2, InvariantHolds, PTL DEF Spec, ImplementsSearch, Search!ASpec

-----------------------------------------------------------------------------
(***************************************************************************)
(* The layers.  Frame is defined by recursion on the number of steps; that *)
(* a function satisfies its equations is shown by giving one: the states   *)
(* in which a run of k steps, each a clock or none, can end.               *)
(***************************************************************************)
WithOneStep(S) == S \union Search!Post(ckt, S)

StepsTo(k, s) ==
  \E p \in [0 .. k -> State] :
     p[0] = Reset /\ p[k] = s /\ \A i \in 1 .. k : p[i] \in WithOneStep({p[i - 1]})

ByRuns == [k \in Nat |-> {s \in State : StepsTo(k, s)}]

(* ByRuns[k] holds the ends of the runs of k steps, and nothing else.       *)
LEMMA RunEnds ==
  ASSUME NEW k \in Nat, NEW p \in [0 .. k -> State], p[0] = Reset,
         \A i \in 1 .. k : p[i] \in WithOneStep({p[i - 1]})
  PROVE  p[k] \in ByRuns[k]
<1>1. p[k] \in State
  OBVIOUS
<1>2. StepsTo(k, p[k])
  BY DEF StepsTo
<1>3. QED
  BY <1>1, <1>2 DEF ByRuns

\* A state at the end of a run of k steps.
LEMMA EndOfRun ==
  ASSUME NEW k \in Nat, NEW s \in ByRuns[k]
  PROVE  s \in State /\ StepsTo(k, s)
BY DEF ByRuns

\* The run of no step ends in the reset state.
LEMMA RunsOfNoStep == ByRuns[0] = {Reset}
<1>1. ASSUME NEW s \in ByRuns[0] PROVE s = Reset
  BY EndOfRun DEF StepsTo
<1>2. Reset \in ByRuns[0]
  <2> DEFINE p == [i \in 0 .. 0 |-> Reset]
  <2>1. p \in [0 .. 0 -> State] /\ p[0] = Reset
    BY ResetType
  <2>2. \A i \in 1 .. 0 : p[i] \in WithOneStep({p[i - 1]})
    OBVIOUS
  <2> HIDE DEF p
  <2>3. QED
    BY <2>1, <2>2, RunEnds
<1>3. QED
  BY <1>1, <1>2

(* A run of k + 1 steps is a run of k and one more.                         *)
LEMMA RunsOfOneMore ==
  ASSUME ckt \in Circuits, NEW k \in Nat
  PROVE  ByRuns[k + 1] = WithOneStep(ByRuns[k])
<1> DEFINE n == k + 1
<1>0. n \in Nat
  OBVIOUS
<1>1. ASSUME NEW s \in ByRuns[n] PROVE s \in WithOneStep(ByRuns[k])
  <2>1. PICK p \in [0 .. k + 1 -> State] :
           /\ p[0] = Reset /\ p[k + 1] = s
           /\ \A i \in 1 .. k + 1 : p[i] \in WithOneStep({p[i - 1]})
    <3>1. StepsTo(n, s)
      BY <1>0, EndOfRun
    <3>2. QED
      BY <3>1 DEF StepsTo
  <2> DEFINE q == [i \in 0 .. k |-> p[i]]
  <2>2. q \in [0 .. k -> State] /\ q[0] = Reset /\ q[k] = p[k]
    BY <2>1
  <2>3. \A i \in 1 .. k : q[i] \in WithOneStep({q[i - 1]})
    BY <2>1
  <2>4. p[k] \in ByRuns[k]
    <3> HIDE DEF q
    <3>1. q[k] \in ByRuns[k]
      BY <2>2, <2>3, RunEnds
    <3>2. QED
      BY <2>2, <3>1
  <2>5. s \in WithOneStep({p[k]})
    <3>1. k + 1 \in 1 .. k + 1 /\ (k + 1) - 1 = k
      OBVIOUS
    <3>2. p[k + 1] \in WithOneStep({p[(k + 1) - 1]})
      BY <2>1, <3>1
    <3>3. QED
      BY <2>1, <3>1, <3>2
  <2>6. Search!Post(ckt, {p[k]}) \subseteq Search!Post(ckt, ByRuns[k])
    BY <2>4, PostMonotone
  <2>7. QED
    BY <2>4, <2>5, <2>6 DEF WithOneStep
<1>2. ASSUME NEW s \in WithOneStep(ByRuns[k]) PROVE s \in ByRuns[n]
  <2>1. PICK r \in ByRuns[k] : s \in WithOneStep({r})
    <3>1. CASE s \in ByRuns[k]
      BY <3>1 DEF WithOneStep
    <3>2. CASE s \in Search!Post(ckt, ByRuns[k])
      BY <3>2 DEF WithOneStep, Search!Post
    <3>3. QED
      BY <1>2, <3>1, <3>2 DEF WithOneStep
  <2>2. r \in State /\ StepsTo(k, r)
    BY EndOfRun
  <2>3. s \in State
    BY <2>1, <2>2, PostType DEF WithOneStep
  <2>4. PICK p \in [0 .. k -> State] :
           p[0] = Reset /\ p[k] = r /\ \A i \in 1 .. k : p[i] \in WithOneStep({p[i - 1]})
    BY <2>2 DEF StepsTo
  <2> DEFINE q == [i \in 0 .. k + 1 |-> IF i = k + 1 THEN s ELSE p[i]]
  <2>5. q \in [0 .. k + 1 -> State]
    BY <2>3
  <2>6. q[0] = Reset /\ q[k + 1] = s
    BY <2>4
  <2>7. ASSUME NEW i \in 1 .. k + 1 PROVE q[i] \in WithOneStep({q[i - 1]})
    <3>1. CASE i = k + 1
      <4>1. q[i] = s /\ q[i - 1] = r
        BY <2>4, <3>1
      <4>2. QED
        BY <2>1, <4>1
    <3>2. CASE i # k + 1
      <4>1. i \in 1 .. k /\ q[i] = p[i] /\ q[i - 1] = p[i - 1]
        BY <3>2
      <4>2. QED
        BY <2>4, <4>1
    <3>3. QED
      BY <3>1, <3>2
  <2> HIDE DEF q
  <2>8. q[n] \in ByRuns[n]
    <3>1. \A i \in 1 .. n : q[i] \in WithOneStep({q[i - 1]})
      BY <2>7
    <3> HIDE DEF n
    <3>2. QED
      BY <1>0, <2>5, <2>6, <3>1, RunEnds DEF n
  <2>9. QED
    BY <2>6, <2>8
<1>3. QED
  BY <1>1, <1>2

(* The equations of Frame: it starts with the reset state, and each layer   *)
(* adds the successors of the one before.                                   *)
LEMMA FrameEquations ==
  ASSUME ckt \in Circuits
  PROVE  /\ Frame[0] = {Reset}
         /\ \A k \in Nat : Frame[k + 1] = WithOneStep(Frame[k])
<1> DEFINE Eq(f) == f = [k \in Nat |-> IF k = 0 THEN {Reset}
                           ELSE LET before == f[k - 1]
                                IN  before \union Search!Post(ckt, before)]
<1>1. Eq(ByRuns)
  <2>1. ASSUME NEW k \in Nat
        PROVE  ByRuns[k] = IF k = 0 THEN {Reset}
                           ELSE LET before == ByRuns[k - 1]
                                IN  before \union Search!Post(ckt, before)
    <3>1. CASE k = 0
      BY <3>1, RunsOfNoStep
    <3>2. CASE k # 0
      <4>1. k - 1 \in Nat /\ (k - 1) + 1 = k
        BY <3>2
      <4>2. ByRuns[(k - 1) + 1] = WithOneStep(ByRuns[k - 1])
        BY <4>1, RunsOfOneMore
      <4>3. QED
        BY <3>2, <4>1, <4>2 DEF WithOneStep
    <3>3. QED
      BY <3>1, <3>2
  <2>2. QED
    BY <2>1, Zenon DEF ByRuns
<1>2. Eq(Frame)
  BY <1>1, Zenon DEF Frame
<1>3. Frame[0] = {Reset}
  BY <1>2
<1>4. ASSUME NEW k \in Nat PROVE Frame[k + 1] = WithOneStep(Frame[k])
  <2>1. k + 1 \in Nat /\ k + 1 # 0 /\ (k + 1) - 1 = k
    OBVIOUS
  <2>2. Frame[k + 1] = LET before == Frame[(k + 1) - 1]
                       IN  before \union Search!Post(ckt, before)
    BY <1>2, <2>1
  <2>3. QED
    BY <2>1, <2>2 DEF WithOneStep
<1>5. QED
  BY <1>3, <1>4

(* Frame[k] holds exactly the states in which a run of k steps can end.     *)
LEMMA FrameIsRuns ==
  ASSUME ckt \in Circuits
  PROVE  \A k \in Nat : Frame[k] = ByRuns[k] /\ Frame[k] \in SUBSET State
<1> DEFINE S == {k \in Nat : Frame[k] = ByRuns[k]}
<1>1. 0 \in S
  BY FrameEquations, RunsOfNoStep
<1>2. \A k \in Nat : k \in S => k + 1 \in S
  BY FrameEquations, RunsOfOneMore
<1>3. \A k \in Nat : k \in S
  <2> HIDE DEF S
  <2>1. QED
    BY <1>1, <1>2, AllNumbers
<1>4. \A k \in Nat : ByRuns[k] \in SUBSET State
  BY EndOfRun
<1>5. QED
  BY <1>3, <1>4

(***************************************************************************)
(* The invariant about depths: beside IInv, that the k-th BDD is the k-th  *)
(* layer and that a printed depth is that of a layer.                      *)
(***************************************************************************)
DInv == FramesExact /\ SafeToDepth /\ verdict.depth \in Nat

(* What a search that has begun looks at is the layer of its depth.         *)
LEMMA ReachStateIsFrame ==
  ASSUME IInv, FramesExact, ReachState # NoBdd
  PROVE  Depth \in Nat /\ RS = Frame[Depth] /\ ReachState = Lift(Frame[Depth])
<1>1. ckt \in Circuits /\ reachStates \in Seq(Bdd)
  BY DEF IInv, TypeOK
<1>2. CASE reachStates = <<>>
  <2>1. ReachState = InitialBdd /\ Depth = 0
    BY <1>2 DEF IInv, ObjectsOK, ReachState, Depth
  <2>2. QED
    BY <1>1, <2>1, InitialStates, FrameEquations DEF RS
<1>3. CASE reachStates # <<>>
  <2>1. Len(reachStates) \in DOMAIN reachStates /\ Depth = Len(reachStates) - 1
        /\ Depth \in Nat /\ ReachState = reachStates[Len(reachStates)]
    BY <1>1, <1>3 DEF ReachState, Depth
  <2>2. ReachState = Lift(Frame[Depth])
    BY <2>1 DEF FramesExact, Lift
  <2>3. QED
    BY <1>1, <2>1, <2>2, FrameIsRuns, StatesOfLift DEF RS
<1>4. QED
  BY <1>2, <1>3

\* The depth invariant holds when the program starts.
LEMMA InitDInv == Init => DInv
BY DEF Init, DInv, FramesExact, SafeToDepth, NoVerdict

\* Every action keeps the depth invariant.
LEMMA NextDInv == IInv /\ IInv' /\ DInv /\ [Next]_vars => DInv'
<1> SUFFICES ASSUME IInv, IInv', DInv, [Next]_vars PROVE DInv'
  OBVIOUS
<1>1. ckt \in Circuits /\ ckt' = ckt /\ reachStates \in Seq(Bdd)
  BY DEF IInv, TypeOK, Next, vars, BReset, BSetOrder, BConstruct, BConstructOnNull, PInitialState,
         PTransRelation, PImage, ImageStep, ImageCrashes, ImageGrows, ImageIsFixed,
         PCheckProperty, PCheckAborts
<1>2. Frame' = Frame
  BY <1>1 DEF Frame
<1>3. ASSUME UNCHANGED verdict, FramesExact' PROVE DInv'
  BY <1>1, <1>2, <1>3 DEF DInv, SafeToDepth
<1>4. CASE UNCHANGED <<reachStates, verdict>>
  BY <1>2, <1>3, <1>4 DEF DInv, FramesExact
<1>5. CASE reachStates' = <<>> /\ UNCHANGED verdict
  BY <1>3, <1>5 DEF FramesExact
<1>6. CASE \E level \in 1 .. MaxLevel : PImage(level)
  <2>1. CASE reachStates = <<>>
    <3>1. initState = InitialBdd /\ reachStates' = <<initState>> /\ UNCHANGED verdict
      BY <1>6, <2>1 DEF PImage, IInv, ObjectsOK
    <3>2. initState = Lift(Frame[0])
      BY <1>1, <3>1, InitialStates, FrameEquations
    <3>3. FramesExact'
      BY <1>2, <3>1, <3>2 DEF FramesExact, Lift
    <3>4. QED
      BY <1>3, <3>1, <3>3
  <2>2. CASE reachStates # <<>>
    BY <1>4, <1>6, <2>2 DEF PImage
  <2>3. QED
    BY <2>1, <2>2
<1>7. CASE ImageGrows
  <2> DEFINE uni == ReachState \union NsToCs(FindNs(ReachState))
             n   == Len(reachStates)
  <2>1. todo > 0 /\ reachStates' = Append(reachStates, uni) /\ UNCHANGED verdict
    BY <1>7 DEF ImageGrows
  <2>2. reachStates # <<>>
    BY <2>1 DEF IInv, PendingOK
  <2>3. n \in Nat /\ n # 0 /\ Depth = n - 1
    BY <1>1, <2>2 DEF Depth
  <2>4. uni = Lift(WithOneStep(RS)) /\ ReachState # NoBdd
    BY <2>1, ImageIsSearchStep DEF WithOneStep
  <2>5. WithOneStep(RS) = Frame[n]
    <3>1. RS = Frame[n - 1] /\ n - 1 \in Nat /\ (n - 1) + 1 = n
      BY <2>3, <2>4, ReachStateIsFrame DEF DInv
    <3>2. Frame[(n - 1) + 1] = WithOneStep(Frame[n - 1])
      BY <1>1, <3>1, FrameEquations
    <3>3. QED
      BY <3>1, <3>2
  <2>6. ASSUME NEW k \in DOMAIN reachStates'
        PROVE  reachStates'[k] = {a \in Assign : StateOf(a) \in Frame[k - 1]}
    <3>1. CASE k \in DOMAIN reachStates
      <4>1. reachStates'[k] = reachStates[k]
        BY <1>1, <2>1, <3>1
      <4>2. QED
        BY <3>1, <4>1 DEF DInv, FramesExact
    <3>2. CASE k \notin DOMAIN reachStates
      <4>1. k = n + 1 /\ reachStates'[k] = uni /\ k - 1 = n
        BY <1>1, <2>1, <2>3, <2>6, <3>2
      <4>2. QED
        BY <2>4, <2>5, <4>1 DEF Lift
    <3>3. QED
      BY <3>1, <3>2
  <2>7. FramesExact'
    BY <1>2, <2>6 DEF FramesExact
  <2>8. QED
    BY <1>3, <2>1, <2>7
<1>8. CASE \E o \in Outputs : PCheckProperty(o)
  <2>1. PICK o \in Outputs : PCheckProperty(o)
    BY <1>8
  <2>2. ReachState # NoBdd /\ UNCHANGED reachStates
    BY <2>1 DEF PCheckProperty
  <2>3. Depth \in Nat /\ ReachState = Lift(Frame[Depth]) /\ Frame[Depth] \in SUBSET State
    BY <1>1, <2>2, ReachStateIsFrame, FrameIsRuns DEF DInv
  <2>4. verdict'.out = o /\ verdict'.depth = Depth
        /\ (verdict'.ans = "safe" => ReachState \cap PoBdd(o) = {})
    BY <2>1 DEF PCheckProperty
  <2>5. SafeToDepth'
    BY <1>1, <1>2, <2>3, <2>4, ReportIsRaises DEF SafeToDepth
  <2>6. FramesExact'
    BY <1>2, <2>2 DEF DInv, FramesExact
  <2>7. QED
    BY <2>3, <2>4, <2>5, <2>6 DEF DInv
<1>9. QED
  <2>1. CASE (\E enough \in BOOLEAN : BReset(enough)) \/ BSetOrder \/ PInitialState
    BY <1>5, <2>1 DEF BReset, BSetOrder, PInitialState, ResetProof
  <2>2. CASE \/ \E gates \in SUBSET Gates : BConstruct(gates)
             \/ BConstructOnNull \/ PTransRelation \/ ImageCrashes \/ ImageIsFixed
             \/ (\E o \in Outputs : PCheckAborts(o)) \/ UNCHANGED vars
    BY <1>4, <2>2 DEF BConstruct, BConstructOnNull, PTransRelation, ImageCrashes, ImageIsFixed,
                      PCheckAborts, vars
  <2>3. QED
    BY <1>6, <1>7, <1>8, <2>1, <2>2 DEF Next, ImageStep

\* The depth invariant holds in every reachable state.
LEMMA DepthInvariant == Spec => []DInv
<1>1. Init => DInv
  BY InitDInv
<1>2. IInv /\ IInv' /\ DInv /\ [Next]_vars => DInv'
  BY NextDInv
<1>3. QED
  BY <1>1, <1>2, InvariantHolds, PTL DEF Spec

(* Every BDD that buildPImage keeps in _reachStates is the layer of its     *)
(* place: the states that runs of that many clocks or fewer can end in, at  *)
(* every number of latches and however the PIMAGe commands were split.      *)
THEOREM LayersCorrect == Spec => []FramesExact
<1>1. DInv => FramesExact
  BY DEF DInv
<1>2. QED
  BY <1>1, DepthInvariant, PTL

(* A "safe" of PCHECKProperty said before the fixed point holds of all runs *)
(* as long as the search was deep then, whatever was done to it since.      *)
THEOREM BoundedVerdictCorrect == Spec => []SafeToDepth
<1>1. DInv => SafeToDepth
  BY DEF DInv
<1>2. QED
  BY <1>1, DepthInvariant, PTL

=============================================================================
