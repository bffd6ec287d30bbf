------------------------------- MODULE ItpMgr -------------------------------
(***************************************************************************)
(* The interpolation manager of src/src/itp/itpMgr.cpp on a solver: the    *)
(* caller says of every clause it adds whether it is of the onset or of    *)
(* the offset; after a refutation getItp reads the proof backwards from    *)
(* its last clause and builds McMillan's interpolant, and getUNSATCore     *)
(* reads the root clauses the proof uses.                                  *)
(*                                                                         *)
(* The clauses are numbered as in SatSolver, whose log is the proof file.  *)
(* A gate is the set of the assignments under which it is 1, an assignment *)
(* being the set of the variables it makes true; var2Net maps a common     *)
(* variable to a gate with that variable's value.                          *)
(***************************************************************************)
EXTENDS SatSolver

CONSTANT OnSets     \* bound: which clauses the caller counts as onset

VARIABLES
    onset,          \* the clauses the caller counts as onset
    isClauseOn,     \* _isClauseOn: by number of the root clause
    itp             \* what getItp and getUNSATCore gave: [made, gate, core]

itpVars == <<onset, isClauseOn, itp>>
allVars == <<vars, itpVars>>

NoItp == [made |-> {}, gate |-> {}, core |-> {}]

-----------------------------------------------------------------------------
(***************************************************************************)
(* Marking.  A clause that newClause drops gets no number, so a caller     *)
(* marks the numbers between the counts before and after.                  *)
(***************************************************************************)
Roots(s) == {c \in DOMAIN s.log : s.log[c].root}
NumClauses(s) == Cardinality(Roots(s))

Resized(on, n) == on \o [k \in 1 .. n - Len(on) |-> FALSE]
MarkClause(on, n, cid, side) == [Resized(on, n) EXCEPT ![cid] = side]

MarkNew(on, s, side) ==
    FoldLeft(LAMBDA acc, cid : MarkClause(acc, NumClauses(s), cid, side), on,
             [k \in 1 .. NumClauses(s) - Len(on) |-> Len(on) + k])

\* The number a root clause has among the roots.
RootNumber(s, c) == Cardinality({d \in Roots(s) : d <= c})
OnClause(s, on, c) == on[RootNumber(s, c)]

(***************************************************************************)
(* retrieveProof: the group of a variable says in whose clauses it occurs, *)
(* and the clauses used are those the last one was derived from.           *)
(***************************************************************************)
Occurs(s, cs) == {Var(p) : p \in UNION {s.log[c].lits : c \in cs}}
OnVars(s, on) == Occurs(s, {c \in Roots(s) : OnClause(s, on, c)})
OffVars(s, on) == Occurs(s, {c \in Roots(s) : ~OnClause(s, on, c)})

CommonVars == OnVars(sv, isClauseOn) \cap OffVars(sv, isClauseOn)

VarGroup(s, on, v) ==
    IF v \in OnVars(s, on)
    THEN IF v \in OffVars(s, on) THEN "COMMON" ELSE "LOCAL_ON"
    ELSE IF v \in OffVars(s, on) THEN "LOCAL_OFF" ELSE "NONE"

\* The queue gives up the highest number first, so that a clause is looked at
\* after all that name it.
TakeFrom(s, queued, c) ==
    IF c \in queued THEN queued \cup Range(s.log[c].ids) ELSE queued
Queued(s) ==
    LET q[k \in 0 .. LastId(s)] ==
          IF k = 0 THEN {LastId(s)} ELSE TakeFrom(s, q[k - 1], LastId(s) + 1 - k)
    IN  q
UsedClauses(s) == Queued(s)[LastId(s)]

(* Slip: only what the last chain names is taken as used.                  *)
LastCore(s) == Roots(s) \cap Range(s.log[LastId(s)].ids)

Core(s) == Roots(s) \cap UsedClauses(s)

-----------------------------------------------------------------------------
(***************************************************************************)
(* Gates.                                                                  *)
(***************************************************************************)
Inputs(s) == SUBSET Vars(s)
Const1(s) == Inputs(s)
Net(s, v) == {a \in Inputs(s) : v \in a}
NotGate(s, g) == Const1(s) \ g
AndGate(g, h) == g \cap h
OrGate(s, g, h) == NotGate(s, AndGate(NotGate(s, g), NotGate(s, h)))
LitGate(s, p) == IF Sign(p) = 1 THEN NotGate(s, Net(s, Var(p))) ELSE Net(s, Var(p))

(* Slip: a pivot common to both sides joins with OR.                       *)
JoinCommonByOr(s, on, g, h, x) ==
    IF VarGroup(s, on, x) \in {"LOCAL_ON", "COMMON"} THEN OrGate(s, g, h) ELSE AndGate(g, h)

\* Resolving on a variable of the onset alone joins with OR, else with AND.
Join(s, on, g, h, x) ==
    IF VarGroup(s, on, x) = "LOCAL_ON" THEN OrGate(s, g, h) ELSE AndGate(g, h)

RootItp(s, on, c) ==
    IF OnClause(s, on, c)
    THEN UNION {LitGate(s, p) : p \in {p \in s.log[c].lits : VarGroup(s, on, Var(p)) = "COMMON"}}
    ELSE Const1(s)

\* Interpolants of the used clauses, in the order of their numbers; `of' has
\* those of the clauses before.
ChainItps(s, on, of, ch) ==
    LET g[k \in 0 .. Len(ch.vars)] ==
          IF k = 0 THEN of[ch.ids[1]]
          ELSE Join(s, on, g[k - 1], of[ch.ids[k + 1]], ch.vars[k])
    IN  g
ItpOfClause(s, on, of, c) ==
    IF s.log[c].root THEN RootItp(s, on, c)
    ELSE ChainItps(s, on, of, s.log[c])[Len(s.log[c].vars)]

FileItp(s, on, cs, of, c) ==
    [d \in DOMAIN of \cup ({c} \cap cs) |-> IF d = c THEN ItpOfClause(s, on, of, c) ELSE of[d]]
ItpsOf(s, on, cs) ==
    LET of[k \in 0 .. LastId(s)] ==
          IF k = 0 THEN [c \in {} |-> {}] ELSE FileItp(s, on, cs, of[k - 1], k)
    IN  of
BuildItp(s, on) == ItpsOf(s, on, UsedClauses(s))[LastId(s)][LastId(s)]

-----------------------------------------------------------------------------
ItpInit == Init /\ onset \in OnSets /\ isClauseOn = <<>> /\ itp = NoItp

AddMarked ==
    /\ AddClause
    /\ isClauseOn' = MarkNew(isClauseOn, sv', todo[1] \in onset)
    /\ UNCHANGED <<onset, itp>>

\* After a refutation, which leaves the empty clause as the last of the proof.
GetItp ==
    /\ Idle /\ ~sv.ok /\ said = "unsat"
    /\ itp' = [itp EXCEPT !.made = @ \cup {"itp"}, !.gate = BuildItp(sv, isClauseOn)]
    /\ UNCHANGED <<vars, onset, isClauseOn>>

(***************************************************************************)
(* getUNSATCore copies the literals of a clause up to the first that is of *)
(* a common variable.  The groups are those of the last getItp; before it  *)
(* they are read from memory that may hold anything.                       *)
(***************************************************************************)
UpToCommon(ls, common) ==
    SelectInSeq(ls, LAMBDA p : Var(p) \in common)
CopiedLits(ls, common) ==
    IF UpToCommon(ls, common) = 0 THEN ls ELSE SubSeq(ls, 1, UpToCommon(ls, common))
CoreClauses(s, common) ==
    {[root |-> c, lits |-> Range(CopiedLits(Sorted(s.log[c].lits), common))] : c \in Core(s)}

Groups == IF "itp" \in itp.made THEN {CommonVars} ELSE SUBSET Vars(sv)

GetUNSATCore ==
    /\ Idle /\ ~sv.ok /\ said = "unsat"
    /\ \E common \in Groups :
         itp' = [itp EXCEPT !.made = @ \cup {"core"}, !.core = CoreClauses(sv, common)]
    /\ UNCHANGED <<vars, onset, isClauseOn>>

ItpNext ==
    \/ AddMarked \/ GetItp \/ GetUNSATCore
    \/ (CreateVar \/ Solve \/ Search) /\ UNCHANGED itpVars

ItpSpec == ItpInit /\ [][ItpNext]_allVars

-----------------------------------------------------------------------------
ClauseGate(s, C) == UNION {LitGate(s, p) : p \in C}
Conj(s, cs) == {a \in Inputs(s) : \A c \in cs : a \in ClauseGate(s, s.log[c].lits)}
DependsOnlyOn(s, g, vs) ==
    \A a \in g : \A b \in Inputs(s) : a \cap vs = b \cap vs => b \in g
OnRoots == {c \in Roots(sv) : OnClause(sv, isClauseOn, c)}

(* What getItp returns is an interpolant: it holds whenever the onset      *)
(* does, never together with the offset, and is about variables that occur *)
(* on both sides; whatever proof the search has found.                     *)
ItpSeparates ==
    "itp" \in itp.made =>
        /\ Conj(sv, OnRoots) \subseteq itp.gate
        /\ Conj(sv, Roots(sv) \ OnRoots) \cap itp.gate = {}
        /\ DependsOnlyOn(sv, itp.gate, CommonVars)

(* The root clauses a core is made from admit no assignment by themselves, *)
(* whatever was copied of their literals.                                  *)
CoreRefutes == "core" \in itp.made => Conj(sv, {k.root : k \in itp.core}) = {}

=============================================================================
