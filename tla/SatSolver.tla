----------------------------- MODULE SatSolver -----------------------------
(***************************************************************************)
(* The solver of src/satsolvers/minisat (MiniSat 1.14 with proof logging), *)
(* as MinisatMgr drives it: variables and clauses are added between calls  *)
(* of solve, which searches under assumptions.                             *)
(*                                                                         *)
(* The solver's fields are one record, sv; the methods are operators from  *)
(* a solver to a solver, and an action runs from one visible point of      *)
(* search to the next: the end of propagate, a conflict dealt with, a      *)
(* decision taken.  Heuristics only choose: which variable is the most     *)
(* active, which learnt clauses are the least active and whether a         *)
(* simplification is due (simpDB_props) are left open.                     *)
(*                                                                         *)
(* A clause is named by the number it has in the proof, which counts from  *)
(* 1 here so that NoClause (NULL, ClauseId_NULL) is 0.                     *)
(***************************************************************************)
EXTENDS Integers, Sequences, FiniteSets, SequencesExt, FiniteSetsExt, Functions, TLC

CONSTANTS
    Problems,       \* bound: sequences of the sets of literals a caller adds
    Questions,      \* bound: the sequences of literals it assumes
    Budgets,        \* bound: the conflict budgets of solveLimited
    MaxSolves,      \* bound: calls of solve and solveLimited in a session
    MaxStarts,      \* bound: restarts after which the limits no longer grow
    FirstConflicts, \* conflicts before the first restart (100 in solve)
    LearntShare     \* of the clauses, the share of learnts kept (1/3 in solve)

Var(p) == p \div 2
Sign(p) == p % 2
Neg(p) == IF Sign(p) = 0 THEN p + 1 ELSE p - 1
PosLit(v) == 2 * v

\* A question does not assume a literal and its negation, as solve demands.
ASSUME SolverAssumption ==
    /\ MaxSolves \in Nat /\ MaxStarts \in Nat /\ FirstConflicts \in Nat \ {0} /\ LearntShare \in Nat \ {0}
    /\ Budgets \subseteq Nat
    /\ Problems \subseteq Seq(SUBSET Nat) /\ \A P \in Problems : \A C \in Range(P) : IsFiniteSet(C)
    /\ Questions \subseteq Seq(Nat) /\ \A q \in Questions : \A p \in Range(q) : Neg(p) \notin Range(q)

True == 1
False == -1
Undef == 0
NoClause == 0

(***************************************************************************)
(* The proof: a sequence of roots and chains.  A chain starts from a       *)
(* clause and resolves it, variable by variable, with others; `lits' is    *)
(* the clause it derives, with the literal Broken if a step of it is not a *)
(* resolution or uses a clause whose deletion was announced before.        *)
(***************************************************************************)
Broken == -1

Chain(start) == [ids |-> <<start>>, vars |-> <<>>]
Resolve(ch, next, x) == [ids |-> Append(ch.ids, next), vars |-> Append(ch.vars, x)]
LastId(s) == Len(s.log)

Pivots(C, D, x) == {p \in {PosLit(x), Neg(PosLit(x))} : p \in C /\ Neg(p) \in D}
ResolventOn(C, D, p) == (C \ {p}) \cup (D \ {Neg(p)})
Resolvent(C, D, x) ==
    IF Pivots(C, D, x) = {} THEN {Broken}
    ELSE ResolventOn(C, D, CHOOSE p \in Pivots(C, D, x) : TRUE)

\* The clauses a chain goes through.
Resolvents(log, ch) ==
    LET r[k \in 0 .. Len(ch.vars)] ==
          IF k = 0 THEN log[ch.ids[1]].lits
          ELSE Resolvent(r[k - 1], log[ch.ids[k + 1]].lits, ch.vars[k])
    IN  r

Derived(s, ch) ==
    IF \E c \in Range(ch.ids) : c \notin DOMAIN s.log \/ c \in s.gone
    THEN {Broken}
    ELSE Resolvents(s.log, ch)[Len(ch.vars)]

AddRoot(s, C) ==
    [s EXCEPT !.log = Append(@, [root |-> TRUE, lits |-> C, ids |-> <<>>, vars |-> <<>>])]

\* A chain of one clause is that clause and leaves no record.
EndChain(s, ch) ==
    IF ch.vars = <<>> THEN s
    ELSE [s EXCEPT !.log = Append(@, [root |-> FALSE, lits |-> Derived(s, ch),
                                      ids |-> ch.ids, vars |-> ch.vars])]
ChainId(s, ch) == IF ch.vars = <<>> THEN ch.ids[1] ELSE LastId(s) + 1

-----------------------------------------------------------------------------
(***************************************************************************)
(* Assignment, decision levels and the order of variables.                 *)
(***************************************************************************)
Value(s, p) == IF Sign(p) = 1 THEN -s.assigns[Var(p)] ELSE s.assigns[Var(p)]
Vars(s) == DOMAIN s.assigns
NAssigns(s) == Len(s.trail)
DecisionLevel(s) == Len(s.trailLim)
(* Slip: the wrong end of the clause is asked for its reason.              *)
LockedBySecond(s, c) == s.reason[Var(s.lits[c][2])] = c

Locked(s, c) == s.reason[Var(s.lits[c][1])] = c

EmptySolver ==
    [ok |-> TRUE, lits |-> <<>>, clauses |-> {}, learnts |-> {}, unitId |-> <<>>,
     order |-> {}, watches |-> <<>>, assigns |-> <<>>, trail |-> <<>>, trailLim |-> <<>>,
     reason |-> <<>>, level |-> <<>>, trailPos |-> <<>>, rootLevel |-> 0, qhead |-> 0,
     simpAssigns |-> 0, model |-> <<>>, conflict |-> <<>>, conflictId |-> NoClause,
     conflicts |-> 0, log |-> <<>>, gone |-> {}]

With(f, x, e) == [y \in DOMAIN f \cup {x} |-> IF y \in DOMAIN f THEN f[y] ELSE e]

NewVar(s) ==
    LET v == Cardinality(Vars(s)) IN
    [s EXCEPT !.watches  = With(With(@, PosLit(v), <<>>), Neg(PosLit(v)), <<>>),
              !.reason   = With(@, v, NoClause),
              !.assigns  = With(@, v, Undef),
              !.level    = With(@, v, -1),
              !.trailPos = With(@, v, -1),
              !.unitId   = With(@, v, NoClause),
              !.order    = @ \cup {v}]

\* The solver after enqueue(p, from); it returns false iff p was false before.
Enqueue(s, p, from) ==
    IF Value(s, p) # Undef THEN s
    ELSE [s EXCEPT !.assigns[Var(p)]  = IF Sign(p) = 1 THEN False ELSE True,
                   !.level[Var(p)]    = DecisionLevel(s),
                   !.trailPos[Var(p)] = NAssigns(s),
                   !.reason[Var(p)]   = from,
                   !.trail            = Append(@, p)]

Assume(s, p) == Enqueue([s EXCEPT !.trailLim = Append(@, NAssigns(s))], p, NoClause)

Shrunk(f, n) == SubSeq(f, 1, n)
Reassigned(f, xs, e) == [x \in DOMAIN f |-> IF x \in xs THEN e ELSE f[x]]

(* Slip: the queue of propagate is not shortened with the trail.           *)
UndoKeepsQueue(s, level, keep, undone) ==
    [s EXCEPT !.assigns  = Reassigned(@, undone, Undef),
              !.reason   = Reassigned(@, undone, NoClause),
              !.order    = @ \cup undone,
              !.trail    = Shrunk(@, keep),
              !.trailLim = Shrunk(@, level)]

(* Slip: the variables are not given back to the heap.                     *)
UndoForgetsOrder(s, level, keep, undone) ==
    [s EXCEPT !.assigns  = Reassigned(@, undone, Undef),
              !.reason   = Reassigned(@, undone, NoClause),
              !.trail    = Shrunk(@, keep),
              !.trailLim = Shrunk(@, level),
              !.qhead    = keep]

Undo(s, level, keep, undone) ==
    [s EXCEPT !.assigns  = Reassigned(@, undone, Undef),
              !.reason   = Reassigned(@, undone, NoClause),
              !.order    = @ \cup undone,
              !.trail    = Shrunk(@, keep),
              !.trailLim = Shrunk(@, level),
              !.qhead    = keep]

CancelUntil(s, level) ==
    IF DecisionLevel(s) <= level THEN s
    ELSE Undo(s, level, s.trailLim[level + 1],
              {Var(s.trail[i]) : i \in s.trailLim[level + 1] + 1 .. NAssigns(s)})

(***************************************************************************)
(* select: a random pick leaves the heap as it is; otherwise the heap      *)
(* gives up its variables, the assigned ones being dropped, until one is   *)
(* unassigned.  Any order of activities may be the current one.            *)
(***************************************************************************)
Unassigned(s) == {v \in Vars(s) : s.assigns[v] = Undef}

(* Slip: an assigned variable on top of the heap passes for an empty heap. *)
SelectionsTopOnly(s) ==
    {[next |-> IF s.assigns[v] = Undef THEN v ELSE -1, order |-> s.order] : v \in s.order}
        \cup IF s.order = {} THEN {[next |-> -1, order |-> {}]} ELSE {}

Selections(s) ==
    LET free    == s.order \cap Unassigned(s)
        dropped == s.order \ Unassigned(s)
        random  == IF s.order = {} THEN {} ELSE {[next |-> v, order |-> s.order] : v \in Unassigned(s)}
        best    == {[next |-> v, order |-> s.order \ (d \cup {v})] : v \in free, d \in SUBSET dropped}
    IN  IF free # {} THEN random \cup best
        ELSE random \cup {[next |-> -1, order |-> {}]}

-----------------------------------------------------------------------------
(***************************************************************************)
(* Clauses.                                                                *)
(***************************************************************************)
IsFalse(s, p) == Value(s, p) = False
Swap(ls, i, j) == [ls EXCEPT ![i] = ls[j], ![j] = ls[i]]
AllButOne(ls) == SubSeq(ls, 2, Len(ls))

\* The members of a set of numbers in ascending order, and the members of a
\* sequence at some places.
Sorted(T) == [i \in 1 .. Cardinality(T) |-> CHOOSE x \in T : Cardinality({y \in T : y < x}) = i - 1]
Picked(ls, ks) == [i \in 1 .. Cardinality(ks) |-> ls[Sorted(ks)[i]]]

\* A clause is in the lists of the negations of the literals it watches.
AddWatches(w, ps, c) == [p \in DOMAIN w |-> IF p \in ps THEN Append(w[p], c) ELSE w[p]]
Attach(s, c, ls, learnt) ==
    [s EXCEPT !.lits    = With(@, c, ls),
              !.watches = AddWatches(@, {Neg(ls[1]), Neg(ls[2])}, c),
              !.learnts = IF learnt THEN @ \cup {c} ELSE @,
              !.clauses = IF learnt THEN @ ELSE @ \cup {c}]

\* The second watch of a learnt clause goes to the first of its highest literals.
SecondWatch(s, ls) ==
    CHOOSE i \in 2 .. Len(ls) :
        /\ \A j \in 2 .. Len(ls) : s.level[Var(ls[j])] <= s.level[Var(ls[i])]
        /\ \A j \in 2 .. i - 1 : s.level[Var(ls[j])] < s.level[Var(ls[i])]

\* The common end of newClause.
Install(s, ls, learnt, id) ==
    IF ls = <<>> THEN [s EXCEPT !.ok = FALSE]
    ELSE IF Len(ls) = 1
    THEN [Enqueue(s, ls[1], NoClause) EXCEPT !.unitId[Var(ls[1])] = id,
                                             !.ok = @ /\ ~IsFalse(s, ls[1])]
    ELSE IF learnt
    THEN Enqueue(Attach(s, id, Swap(ls, 2, SecondWatch(s, ls)), TRUE), ls[1], id)
    ELSE Attach(s, id, ls, FALSE)

\* newClause of a clause of the problem: false literals are resolved away.
ResolveUnits(s, ch, ls) ==
    [ids  |-> ch.ids \o [i \in DOMAIN ls |-> s.unitId[Var(ls[i])]],
     vars |-> ch.vars \o [i \in DOMAIN ls |-> Var(ls[i])]]

InstallRoot(s, ls, ch) == Install(EndChain(s, ch), ls, FALSE, ChainId(s, ch))
AddLits(s, C) ==
    InstallRoot(s, Sorted({p \in C : ~IsFalse(s, p)}),
                ResolveUnits(s, Chain(LastId(s)), Sorted({p \in C : IsFalse(s, p)})))

NewClause(s, C) ==
    IF \/ ~s.ok
       \/ \E p \in C : Neg(p) \in C
       \/ \E p \in C : Value(s, p) = True
    THEN s
    ELSE AddLits(AddRoot(s, C), C)

\* removeWatch: lists that were cleared are skipped.
Without(ws, c) == RemoveAt(ws, CHOOSE i \in DOMAIN ws : ws[i] = c /\ \A j \in 1 .. i - 1 : ws[j] # c)
RemoveWatch(s, p, c) == IF s.watches[p] = <<>> THEN s ELSE [s EXCEPT !.watches[p] = Without(@, c)]

Forget(s, c) ==
    [s EXCEPT !.lits    = Restrict(@, DOMAIN @ \ {c}),
              !.clauses = @ \ {c},
              !.learnts = @ \ {c},
              !.gone    = @ \cup {c}]

(* Slip: only the first of the two lists forgets the clause.               *)
RemoveClauseHalf(s, c) == Forget(RemoveWatch(s, Neg(s.lits[c][1]), c), c)

RemoveClause(s, c) ==
    Forget(RemoveWatch(RemoveWatch(s, Neg(s.lits[c][1]), c), Neg(s.lits[c][2]), c), c)

-----------------------------------------------------------------------------
(***************************************************************************)
(* propagate: every literal of the trail from qhead on visits the clauses  *)
(* that watch it.                                                          *)
(***************************************************************************)
NewWatches(s, ls) == {k \in 3 .. Len(ls) : ~IsFalse(s, ls[k])}
FalseSecond(ls, false) == IF ls[1] = false THEN Swap(ls, 1, 2) ELSE ls

\* A clause has become unit in p, or false, at level 0: the chain derives p.
LogAtRoot(s, p, ch) ==
    IF IsFalse(s, p)
    THEN EndChain(EndChain(s, ch), Resolve(Chain(s.unitId[Var(p)]), ChainId(s, ch), Var(p)))
    ELSE [EndChain(s, ch) EXCEPT !.unitId[Var(p)] = ChainId(s, ch)]
LogUnit(s, c) ==
    IF DecisionLevel(s) > 0 THEN s
    ELSE LogAtRoot(s, s.lits[c][1], ResolveUnits(s, Chain(c), AllButOne(s.lits[c])))

\* One clause of the list being visited; r.kept is the list as it is rebuilt.
Keep(r, c) == [r EXCEPT !.kept = Append(@, c)]
MoveWatch(s, c, ls, k) ==
    [s EXCEPT !.lits[c] = Swap(ls, 2, k), !.watches[Neg(ls[k])] = Append(@, c)]
Infer(r, c, p) ==
    IF IsFalse(r.s, p)
    THEN [r EXCEPT !.s.qhead = NAssigns(r.s), !.s.ok = @ /\ DecisionLevel(r.s) > 0, !.confl = c]
    ELSE [r EXCEPT !.s = Enqueue(r.s, p, c)]

(* Slip: an unassigned first literal is taken for a true one.              *)
ExamineHopeful(r, c, ls) ==
    IF ~IsFalse(r.s, ls[1]) THEN [Keep(r, c) EXCEPT !.s.lits[c] = ls]
    ELSE IF NewWatches(r.s, ls) # {}
    THEN [r EXCEPT !.s = MoveWatch(r.s, c, ls, Min(NewWatches(r.s, ls)))]
    ELSE Infer([Keep(r, c) EXCEPT !.s = LogUnit([r.s EXCEPT !.lits[c] = ls], c)], c, ls[1])

Examine(r, c, ls) ==
    IF Value(r.s, ls[1]) = True THEN [Keep(r, c) EXCEPT !.s.lits[c] = ls]
    ELSE IF NewWatches(r.s, ls) # {}
    THEN [r EXCEPT !.s = MoveWatch(r.s, c, ls, Min(NewWatches(r.s, ls)))]
    ELSE Infer([Keep(r, c) EXCEPT !.s = LogUnit([r.s EXCEPT !.lits[c] = ls], c)], c, ls[1])

Visit(r, p, c) ==
    IF r.confl # NoClause THEN Keep(r, c) ELSE Examine(r, c, FalseSecond(r.s.lits[c], Neg(p)))

Relist(r, p) == [s |-> [r.s EXCEPT !.watches[p] = r.kept], confl |-> r.confl]

Dequeued(s) == [s |-> [s EXCEPT !.qhead = @ + 1], kept |-> <<>>, confl |-> NoClause]
Visits(s, p) ==
    LET r[k \in 0 .. Len(s.watches[p])] ==
          IF k = 0 THEN Dequeued(s) ELSE Visit(r[k - 1], p, s.watches[p][k])
    IN  r
PropagateLit(s, p) == Relist(Visits(s, p)[Len(s.watches[p])], p)

\* The loop takes a literal off the queue in each round, and every variable
\* comes there once at most.
Round(r) ==
    IF r.s.qhead = NAssigns(r.s) THEN r ELSE PropagateLit(r.s, r.s.trail[r.s.qhead + 1])
Quiet(s) == [s |-> s, confl |-> NoClause]
Rounds(s) ==
    LET r[k \in 0 .. Cardinality(Vars(s))] ==
          IF k = 0 THEN Quiet(s) ELSE Round(r[k - 1])
    IN  r

\* The solver when propagate returns, and the clause in conflict if there is one.
Propagate(s) == Rounds(s)[Cardinality(Vars(s))]

-----------------------------------------------------------------------------
(***************************************************************************)
(* analyze: from the clause in conflict, resolve backwards along the trail *)
(* until one literal of the current level is left; then drop the literals  *)
(* the others imply.  a = [seen, open, learnt, bt, chain, at]: the         *)
(* variables marked, how many of them are of the current level, the rest   *)
(* of the learnt clause, its highest level, the chain of the proof and the *)
(* next position of the trail to look at.                                  *)
(***************************************************************************)
MeetLiteral(s, a, q) ==
    LET v == Var(q) IN
    IF v \in a.seen THEN a
    ELSE IF s.level[v] = 0 THEN [a EXCEPT !.chain = Resolve(@, s.unitId[v], v)]
    ELSE IF s.level[v] = DecisionLevel(s) THEN [a EXCEPT !.seen = @ \cup {v}, !.open = @ + 1]
    ELSE [a EXCEPT !.seen = @ \cup {v}, !.learnt = Append(@, q), !.bt = Max({@, s.level[v]})]

Meetings(s, a, ls) ==
    LET r[k \in 0 .. Len(ls)] == IF k = 0 THEN a ELSE MeetLiteral(s, r[k - 1], ls[k]) IN r
MeetAll(s, a, ls) == Meetings(s, a, ls)[Len(ls)]
LastSeen(s, a) == Max({j \in 1 .. a.at : Var(s.trail[j]) \in a.seen})

\* One round of the loop: the last literal marked is resolved away, unless it
\* is the only one of the current level.
ResolveAt(s, a, i, x) ==
    MeetAll(s, [a EXCEPT !.seen = @ \ {x}, !.open = @ - 1, !.at = i - 1,
                         !.chain = Resolve(@, s.reason[x], x)],
            AllButOne(s.lits[s.reason[x]]))
ResolveBack(s, a) ==
    IF a.open = 1 THEN a ELSE ResolveAt(s, a, LastSeen(s, a), Var(s.trail[LastSeen(s, a)]))
WaysBack(s, a) ==
    LET r[k \in 0 .. NAssigns(s)] == IF k = 0 THEN a ELSE ResolveBack(s, r[k - 1]) IN r
ResolvedBack(s, a) == WaysBack(s, a)[NAssigns(s)]

\* What is left of the current level is asserted.
AssertLit(s, a, p) == [a EXCEPT !.seen = @ \ {Var(p)}, !.learnt = <<Neg(p)>> \o @]
UipOf(s, a) == AssertLit(s, a, s.trail[LastSeen(s, a)])
ToFirstUip(s, a) == UipOf(s, ResolvedBack(s, a))

(***************************************************************************)
(* analyze_removable: is every literal that implies p already marked, or   *)
(* itself so implied?  m = [seen, stack, clear, ok]; the levels of the     *)
(* clause are kept modulo 32 (min_level).                                  *)
(***************************************************************************)
MinLevel(s, ls) == {s.level[Var(q)] % 32 : q \in Range(ls)}

MeetCause(s, m, q, levels) ==
    LET v == Var(q) IN
    IF ~m.ok \/ v \in m.seen \/ s.level[v] = 0 THEN m
    ELSE IF s.reason[v] # NoClause /\ s.level[v] % 32 \in levels
    THEN [m EXCEPT !.seen = @ \cup {v}, !.stack = Append(@, q), !.clear = @ \cup {v}]
    ELSE [m EXCEPT !.ok = FALSE]

CausesOf(s, p) == AllButOne(s.lits[s.reason[Var(p)]])

MeetCauses(s, m, ls, levels) ==
    LET r[k \in 0 .. Len(ls)] == IF k = 0 THEN m ELSE MeetCause(s, r[k - 1], ls[k], levels) IN r

\* One round of the loop over the stack, on which every variable comes once.
Popped(m) == [m EXCEPT !.stack = Front(@)]
PopOf(s, m, ls, levels) == MeetCauses(s, Popped(m), ls, levels)[Len(ls)]
PopCause(s, m, levels) ==
    IF ~m.ok \/ m.stack = <<>> THEN m ELSE PopOf(s, m, CausesOf(s, Last(m.stack)), levels)
Pops(s, m, levels) ==
    LET r[k \in 0 .. Cardinality(Vars(s)) + 1] == IF k = 0 THEN m ELSE PopCause(s, r[k - 1], levels) IN r
Removable(s, m, levels) == Pops(s, m, levels)[Cardinality(Vars(s)) + 1]

\* One literal of the learnt clause: kept, or marked for removal with its causes.
KeepOrClear(m, tried, p) ==
    IF tried.ok THEN [tried EXCEPT !.clear = @ \cup {Var(p)}] ELSE [m EXCEPT !.learnt = Append(@, p)]
Shorten(s, m, p, levels) ==
    IF s.reason[Var(p)] = NoClause THEN [m EXCEPT !.learnt = Append(@, p)]
    ELSE KeepOrClear(m, Removable(s, [m EXCEPT !.stack = <<p>>], levels), p)

Unshortened(a) ==
    [seen |-> a.seen, stack |-> <<>>, clear |-> {}, ok |-> TRUE, learnt |-> <<a.learnt[1]>>]
Shortenings(s, a, rest) ==
    LET r[k \in 0 .. Len(rest)] ==
          IF k = 0 THEN Unshortened(a) ELSE Shorten(s, r[k - 1], rest[k], MinLevel(s, rest))
    IN  r
Minimized(s, a, rest) == Shortenings(s, a, rest)[Len(rest)]

\* The chain resolves what was removed from last to first of the trail.
AtLevel0(s, ls) == Picked(ls, {k \in DOMAIN ls : s.level[Var(ls[k])] = 0})
ResolveWith(s, ch, v, ls) == ResolveUnits(s, Resolve(ch, s.reason[v], v), AtLevel0(s, ls))
ResolveAway(s, ch, v, clear) ==
    IF v \notin clear THEN ch ELSE ResolveWith(s, ch, v, AllButOne(s.lits[s.reason[v]]))

(* Slip: resolved in the order of the trail.                               *)
FromFirst(s, k) == s.trail[k]

FromLast(s, k) == s.trail[NAssigns(s) - k + 1]
WaysAway(s, ch, clear) ==
    LET r[k \in 0 .. NAssigns(s)] ==
          IF k = 0 THEN ch ELSE ResolveAway(s, r[k - 1], Var(FromLast(s, k)), clear)
    IN  r

Learnt(s, a, m) ==
    [s |-> EndChain(s, WaysAway(s, a.chain, m.clear)[NAssigns(s)]), learnt |-> m.learnt, bt |-> a.bt]
Minimize(s, a) == Learnt(s, a, Minimized(s, a, AllButOne(a.learnt)))

Analyze(s, confl) ==
    Minimize(s, ToFirstUip(s, MeetAll(s, [seen |-> {}, open |-> 0, learnt |-> <<>>, bt |-> 0,
                                          chain |-> Chain(confl), at |-> NAssigns(s)],
                                      s.lits[confl])))

(***************************************************************************)
(* analyzeFinal: the conflict in terms of the assumptions.                 *)
(***************************************************************************)
MeetFinals(s, f, ls) ==
    [f EXCEPT !.seen  = @ \cup {Var(q) : q \in {p \in Range(ls) : s.level[Var(p)] > 0}},
              !.chain = ResolveUnits(s, @, AtLevel0(s, ls))]

Unmark(f, x) == [f EXCEPT !.seen = @ \ {x}]
Explain(s, f, p, x) ==
    IF x \notin f.seen THEN f
    ELSE IF s.reason[x] = NoClause THEN Unmark([f EXCEPT !.conflict = Append(@, Neg(p))], x)
    ELSE Unmark(MeetFinals(s, [f EXCEPT !.chain = Resolve(@, s.reason[x], x)],
                           AllButOne(s.lits[s.reason[x]])), x)

\* The trail from the root level back to the first assumption, as indices.
FinalStart(s) == IF s.rootLevel >= DecisionLevel(s) THEN NAssigns(s) ELSE s.trailLim[s.rootLevel + 1] + 1
ExplainAt(s, f, i) == Explain(s, f, s.trail[i], Var(s.trail[i]))
Explanations(s, f, first, from) ==
    LET r[k \in 0 .. from - first] == IF k = 0 THEN f ELSE ExplainAt(s, r[k - 1], from - k + 1) IN r
Explained(s, f, first, from) == Explanations(s, f, first, from)[from - first]

Concluded(s, f) == [EndChain(s, f.chain) EXCEPT !.conflict = f.conflict, !.conflictId = ChainId(s, f.chain)]

Blamed(s, confl, ls) ==
    Explained(s, MeetFinals(s, [seen |-> {}, chain |-> Chain(confl), conflict |-> <<>>], ls),
              s.trailLim[1], FinalStart(s))
AnalyzeFinal(s, confl, skipFirst) ==
    IF s.rootLevel = 0 THEN [s EXCEPT !.conflict = <<>>, !.conflictId = LastId(s)]
    ELSE Concluded(s, Blamed(s, confl, IF skipFirst THEN AllButOne(s.lits[confl]) ELSE s.lits[confl]))

-----------------------------------------------------------------------------
(***************************************************************************)
(* The clause database.                                                    *)
(***************************************************************************)
Satisfied(s, c) == \E p \in Range(s.lits[c]) : Value(s, p) = True
RemoveIfIn(s, c, cs) == IF c \in cs THEN RemoveClause(s, c) ELSE s
Removals(s, cs) ==
    LET r[c \in 0 .. LastId(s)] == IF c = 0 THEN s ELSE RemoveIfIn(r[c - 1], c, cs) IN r
RemoveAll(s, cs) == Removals(s, cs)[LastId(s)]

ClearLists(s, settled) ==
    [s EXCEPT !.watches = [p \in DOMAIN @ |-> IF Var(p) \in settled THEN <<>> ELSE @[p]]]
NewlySettled(s) == {Var(s.trail[i]) : i \in s.simpAssigns + 1 .. NAssigns(s)}
DropSatisfied(s) ==
    [RemoveAll(s, {c \in s.clauses \cup s.learnts : ~Locked(s, c) /\ Satisfied(s, c)})
        EXCEPT !.simpAssigns = NAssigns(s)]

\* `due' says that enough propagations were made since the last time.
Tidy(s, confl, due) ==
    IF confl # NoClause THEN [s EXCEPT !.ok = FALSE]
    ELSE IF NAssigns(s) = s.simpAssigns \/ ~due THEN s
    ELSE DropSatisfied(ClearLists(s, NewlySettled(s)))

TidyAfter(r, due) == Tidy(r.s, r.confl, due)
SimplifyDB(s, due) == IF ~s.ok THEN s ELSE TidyAfter(Propagate(s), due)

(***************************************************************************)
(* reduceDB sorts the learnt clauses by activity, binary ones last, and of *)
(* the first half removes what is neither binary nor locked; of the second *)
(* half also what is below a limit of activity.  Any activities may be.    *)
(***************************************************************************)
Reductions(s) ==
    LET long  == {c \in s.learnts : Len(s.lits[c]) > 2}
        loose == {c \in long : ~Locked(s, c)}
        half  == Min({Cardinality(long), Cardinality(s.learnts) \div 2})
    IN  {gone \in SUBSET loose : \E first \in kSubset(half, long) : first \cap loose \subseteq gone}

-----------------------------------------------------------------------------
(***************************************************************************)
(* The session: a caller adds the variables and clauses of a problem and   *)
(* asks, at any moment, any of its questions.                              *)
(***************************************************************************)
VARIABLES
    sv,         \* the solver
    todo,       \* the clauses the caller still has to add
    given,      \* the clauses it has added
    pc,         \* where the solver is: "idle", or a point of search
    call,       \* the call in progress: its assumptions, budget and limits
    said,       \* what the last call returned
    solves      \* calls made

vars == <<sv, todo, given, pc, call, said, solves>>

NoBudget == -1
NoCall == [assumps |-> <<>>, budget |-> NoBudget, nofLearnts |-> 0, starts |-> 0,
           limit |-> 0, conflictC |-> 0, confl |-> NoClause]

Init ==
    /\ sv = EmptySolver
    /\ todo \in Problems /\ given = {}
    /\ pc = "idle" /\ call = NoCall /\ said = "none" /\ solves = 0

Idle == pc = "idle"
Needed(C) == {Var(p) : p \in C}

CreateVar ==
    /\ Idle /\ todo # <<>> /\ ~(Needed(todo[1]) \subseteq Vars(sv))
    /\ sv' = NewVar(sv) /\ said' = "none"
    /\ UNCHANGED <<todo, given, pc, call, solves>>

AddClause ==
    /\ Idle /\ todo # <<>> /\ Needed(todo[1]) \subseteq Vars(sv)
    /\ sv' = NewClause(sv, todo[1])
    /\ todo' = Tail(todo) /\ given' = given \cup {todo[1]}
    /\ said' = "none"
    /\ UNCHANGED <<pc, call, solves>>

(***************************************************************************)
(* The assumptions, each at a level of its own.                            *)
(***************************************************************************)
Blame(s, p) == [s EXCEPT !.conflict = Append(@, Neg(p))]
RefuseAssumption(s, p) ==
    IF s.reason[Var(p)] # NoClause THEN Blame(AnalyzeFinal(s, s.reason[Var(p)], TRUE), p)
    ELSE [s EXCEPT !.conflict = <<Neg(p)>>, !.conflictId = s.unitId[Var(p)]]

AfterAssumption(r) ==
    IF r.confl = NoClause THEN [s |-> r.s, failed |-> FALSE]
    ELSE [s |-> AnalyzeFinal(r.s, r.confl, FALSE), failed |-> TRUE]

AssumeOne(a, p) ==
    IF a.failed THEN a
    ELSE IF IsFalse(a.s, p) THEN [s |-> RefuseAssumption(Assume(a.s, p), p), failed |-> TRUE]
    ELSE AfterAssumption(Propagate(Assume(a.s, p)))

Unassumed(s, q) == [s |-> [s EXCEPT !.rootLevel = Len(q)], failed |-> FALSE]
Assumed(s, q) ==
    LET r[k \in 0 .. Len(q)] == IF k = 0 THEN Unassumed(s, q) ELSE AssumeOne(r[k - 1], q[k]) IN r
AssumeAll(s, q) == Assumed(s, q)[Len(q)]

\* The limit of the next search: 1.5 times more at each restart, and never
\* more than a budget leaves.
SearchLimit(s, starts, budget) ==
    LET n == (FirstConflicts * 3 ^ starts) \div 2 ^ starts
    IN  IF budget = NoBudget THEN n ELSE Min({n, budget - s.conflicts})

(* Slip: a budget that is just spent counts as not spent.                  *)
Overspent(s, budget) == budget # NoBudget /\ s.conflicts > budget

Exhausted(s, budget) == budget # NoBudget /\ s.conflicts >= budget

\* Every return of solve and solveLimited.
Finish(s, answer) ==
    /\ sv' = CancelUntil(s, 0)
    /\ pc' = "idle" /\ said' = answer
    /\ call' = [NoCall EXCEPT !.assumps = call.assumps]
    /\ UNCHANGED <<todo, given, solves>>

Ask(q, budget) ==
    /\ Idle /\ solves < MaxSolves
    /\ \A p \in Range(q) : Var(p) \in Vars(sv)
    /\ pc' = "enter" /\ said' = "none"
    /\ call' = [NoCall EXCEPT !.assumps = q, !.budget = budget]
    /\ solves' = solves + 1
    /\ UNCHANGED <<sv, todo, given>>

\* MinisatMgr gives a budget only to questions without assumptions.
Solve == \E q \in Questions : Ask(q, NoBudget)
SolveLimited == \E budget \in Budgets : Ask(<<>>, budget)

\* solve and solveLimited up to their first search.
Begin(s) ==
    /\ sv' = [s EXCEPT !.model = <<>>]
    /\ pc' = "propagate"
    /\ call' = [call EXCEPT !.nofLearnts = Cardinality(s.clauses) \div LearntShare,
                            !.limit = SearchLimit(s, 0, call.budget)]
    /\ UNCHANGED <<todo, given, said, solves>>

EnterAfter(a) ==
    \/ a.failed /\ Finish(a.s, "unsat")
    \/ ~a.failed /\ Exhausted(a.s, call.budget) /\ Finish(a.s, "unknown")
    \/ ~a.failed /\ ~Exhausted(a.s, call.budget) /\ Begin(a.s)

EnterWith(s) ==
    \/ ~s.ok /\ Finish(s, "unsat")
    \/ s.ok /\ EnterAfter(AssumeAll(s, call.assumps))

Enter == pc = "enter" /\ \E due \in BOOLEAN : EnterWith(SimplifyDB(sv, due))

-----------------------------------------------------------------------------
(***************************************************************************)
(* search.                                                                 *)
(***************************************************************************)
AfterPropagate(r) ==
    /\ sv' = r.s
    /\ call' = [call EXCEPT !.confl = r.confl]
    /\ pc' = IF r.confl = NoClause THEN "decide" ELSE "conflict"
PropagateAll ==
    /\ pc = "propagate"
    /\ AfterPropagate(Propagate(sv))
    /\ UNCHANGED <<todo, given, said, solves>>

\* A conflict at the root: nothing satisfies the clauses and assumptions.
Refute ==
    /\ pc = "conflict" /\ DecisionLevel(sv) = sv.rootLevel
    /\ Finish(AnalyzeFinal([sv EXCEPT !.conflicts = @ + 1], call.confl, FALSE), "unsat")

\* A learnt unit is asserted at the root level but counts as of level 0.
SettleUnit(s, learnt) ==
    IF Len(learnt) = 1 THEN [s EXCEPT !.level[Var(learnt[1])] = 0] ELSE s
Backjump(a) ==
    SettleUnit(Install(CancelUntil(a.s, Max({a.bt, a.s.rootLevel})), a.learnt, TRUE, LastId(a.s)), a.learnt)

Learn ==
    /\ pc = "conflict" /\ DecisionLevel(sv) > sv.rootLevel
    /\ sv' = Backjump(Analyze([sv EXCEPT !.conflicts = @ + 1], call.confl))
    /\ pc' = "propagate"
    /\ call' = [call EXCEPT !.conflictC = @ + 1, !.confl = NoClause]
    /\ UNCHANGED <<todo, given, said, solves>>

LimitReached == call.conflictC >= call.limit

Restart ==
    /\ pc = "decide" /\ LimitReached /\ ~Exhausted(sv, call.budget)
    /\ sv' = [CancelUntil(sv, sv.rootLevel) EXCEPT !.model = <<>>]
    /\ pc' = "propagate"
    /\ call' = [call EXCEPT !.starts = Min({@ + 1, MaxStarts}), !.conflictC = 0,
                            !.limit = SearchLimit(sv, call.starts + 1, call.budget)]
    /\ UNCHANGED <<todo, given, said, solves>>

GiveUp ==
    /\ pc = "decide" /\ LimitReached /\ Exhausted(sv, call.budget)
    /\ Finish(sv, "unknown")

LearntLimit == (call.nofLearnts * 11 ^ call.starts) \div 10 ^ call.starts

\* The solvers a decision may start from: satisfied and inactive clauses go.
Tidied ==
    {IF DecisionLevel(sv) = 0 THEN SimplifyDB(sv, due) ELSE sv : due \in BOOLEAN}
Reduced(s) ==
    IF Cardinality(s.learnts) - NAssigns(s) < LearntLimit THEN {s}
    ELSE {RemoveAll(s, gone) : gone \in Reductions(s)}
ToDecide == UNION {Reduced(s) : s \in Tidied}

Decide ==
    /\ pc = "decide" /\ ~LimitReached
    /\ \E s \in ToDecide : \E sel \in Selections(s) :
         /\ sel.next >= 0
         /\ sv' = Assume([s EXCEPT !.order = sel.order], Neg(PosLit(sel.next)))
    /\ pc' = "propagate"
    /\ UNCHANGED <<todo, given, call, said, solves>>

FindModel ==
    /\ pc = "decide" /\ ~LimitReached
    /\ \E s \in ToDecide : \E sel \in Selections(s) :
         /\ sel.next < 0
         /\ Finish([s EXCEPT !.order = sel.order, !.model = s.assigns], "sat")

Search == Enter \/ PropagateAll \/ Refute \/ Learn \/ Restart \/ GiveUp \/ Decide \/ FindModel

\* MinisatMgr::reset: a new solver in place of the old one.
Reset ==
    /\ Idle /\ given # {}
    /\ sv' = EmptySolver /\ todo' \in Problems /\ given' = {}
    /\ call' = NoCall /\ said' = "none" /\ solves' = 0
    /\ UNCHANGED pc

Next == CreateVar \/ AddClause \/ Solve \/ SolveLimited \/ Reset \/ Search

Spec == Init /\ [][Next]_vars

(***************************************************************************)
(* A call in progress goes on: search is a loop that waits for nothing.    *)
(* This is WF_vars(Search), since some step of Search is enabled whenever  *)
(* a call is in progress (TLC reports a deadlock otherwise) and only those *)
(* are; it is written without ENABLED, which TLC would evaluate by running *)
(* the solver once more at every state.                                    *)
(***************************************************************************)
Running == []<>Idle \/ []<><<TRUE>>_vars
FairSpec == Spec /\ Running

-----------------------------------------------------------------------------
Points == {"idle", "enter", "propagate", "conflict", "decide"}

(* Every field of the solver, the call and the session has its type.       *)
TypeOK ==
    /\ pc \in Points /\ said \in {"none", "sat", "unsat", "unknown"}
    /\ solves \in 0 .. MaxSolves
    /\ sv.assigns \in [Vars(sv) -> {True, False, Undef}]
    /\ DOMAIN sv.reason = Vars(sv) /\ DOMAIN sv.level = Vars(sv) /\ DOMAIN sv.unitId = Vars(sv)
    /\ sv.clauses \cup sv.learnts = DOMAIN sv.lits /\ sv.clauses \cap sv.learnts = {}
    /\ sv.qhead \in 0 .. NAssigns(sv)
    /\ IsInjective(sv.trail)
    /\ {Var(p) : p \in Range(sv.trail)} = Vars(sv) \ Unassigned(sv)
    /\ Idle => DecisionLevel(sv) = 0
    /\ pc \in {"propagate", "conflict", "decide"} => DecisionLevel(sv) >= sv.rootLevel

\* A root is a clause over the variables there are, a chain derives its
\* clause by resolutions from clauses with lower numbers.
IsRoot(s, c) ==
    /\ Range(s.log[c].ids) = {}
    /\ \A p \in s.log[c].lits : p \in Nat /\ Var(p) \in Vars(s)
IsChain(s, c) ==
    LET ids == s.log[c].ids
        xs  == s.log[c].vars
    IN  /\ xs \in Seq(Nat) /\ ids \in Seq(1 .. c - 1) /\ Len(ids) = Len(xs) + 1
        /\ \A k \in DOMAIN xs :
             Pivots(Resolvents(s.log, s.log[c])[k - 1], s.log[ids[k + 1]].lits, xs[k]) # {}
        /\ s.log[c].lits = Resolvents(s.log, s.log[c])[Len(xs)]

(* The proof the solver writes while it runs (newClause, propagate,        *)
(* analyze, analyzeFinal) is a proof of what it keeps: every chain is made *)
(* of resolutions over clauses that were not deleted before, every clause  *)
(* of the store is the one its number derives, every literal true at level *)
(* 0 has its unit clause, the conflict clause has the number conflict_id,  *)
(* and when the problem is refuted the last clause is the empty one, which *)
(* is where ItpMgr starts to read.                                         *)
ProofExact ==
    /\ sv.log \in Seq(Range(sv.log))
    /\ \A c \in DOMAIN sv.log : Broken \notin sv.log[c].lits
    /\ \A c \in DOMAIN sv.log : IF sv.log[c].root THEN IsRoot(sv, c) ELSE IsChain(sv, c)
    /\ \A c \in DOMAIN sv.lits : sv.log[c].lits = Range(sv.lits[c])
    /\ \A p \in Range(sv.trail) :
         sv.level[Var(p)] = 0 => sv.log[sv.unitId[Var(p)]].lits = {p}
    /\ ~sv.ok => LastId(sv) >= 1 /\ sv.log[LastId(sv)].lits = {}
    /\ said = "unsat" /\ sv.ok => sv.log[sv.conflictId].lits = Range(sv.conflict)

(* When propagate returns without a conflict no clause is false and none   *)
(* is left with one unassigned literal and the others false, although each *)
(* clause is looked at only through two of its literals.                   *)
PropagationComplete ==
    pc = "decide" =>
        \A c \in DOMAIN sv.lits :
            Satisfied(sv, c) \/ Cardinality({p \in Range(sv.lits[c]) : ~IsFalse(sv, p)}) >= 2

(* A clause is in the lists of its two watches, once in each, unless the   *)
(* list was cleared because its variable is settled at level 0; and a list *)
(* names no clause that was freed.  removeWatch runs past the end of a     *)
(* list that has members but not the one it looks for.                     *)
WatchesIntact ==
    /\ \A c \in DOMAIN sv.lits : \A i \in {1, 2} :
         LET p  == sv.lits[c][i]
             ws == sv.watches[Neg(p)]
         IN  \/ Cardinality({k \in DOMAIN ws : ws[k] = c}) = 1
             \/ ws = <<>> /\ Value(sv, p) # Undef /\ sv.level[Var(p)] = 0
    /\ \A p \in DOMAIN sv.watches : \A c \in Range(sv.watches[p]) :
         c \in DOMAIN sv.lits /\ Neg(p) \in {sv.lits[c][1], sv.lits[c][2]}

(* A reason is a clause that is still in the store, with the literal it    *)
(* implied in front and the others false since before: reduceDB and        *)
(* simplifyDB free clauses while the trail refers to them, and propagate   *)
(* exchanges the literals of clauses.                                      *)
ReasonsAlive ==
    \A v \in Vars(sv) : sv.reason[v] # NoClause =>
        /\ sv.reason[v] \in DOMAIN sv.lits
        /\ LET ls == sv.lits[sv.reason[v]] IN
             /\ Var(ls[1]) = v /\ Value(sv, ls[1]) = True
             /\ \A q \in Range(AllButOne(ls)) :
                  IsFalse(sv, q) /\ sv.trailPos[Var(q)] < sv.trailPos[v]

(* An unassigned variable can always be selected: search takes an empty    *)
(* heap to mean that every variable has a value and reports a model.       *)
NoVariableLost == Unassigned(sv) \subseteq sv.order

(* Under the fairness of a loop, every call returns, whatever is chosen,   *)
(* forgotten and restarted.                                                *)
SolveEnds == ~Idle ~> Idle

(***************************************************************************)
(* Seen from the caller.  After a refutation okay() is FALSE and the old   *)
(* contents of `conflict' mean nothing.                                    *)
(***************************************************************************)
ModelOf(s) == {IF s.model[v] = True THEN PosLit(v) ELSE Neg(PosLit(v)) : v \in DOMAIN s.model}
ReplyOf(s) ==
    [said  |-> said,
     model |-> IF said = "sat" THEN ModelOf(s) ELSE {},
     core  |-> IF said = "unsat" /\ s.ok THEN Range(s.conflict) ELSE {}]

Oracle == INSTANCE SatOracle WITH
    numVars <- Cardinality(Vars(sv)), asked <- call.assumps,
    busy <- ~Idle, reply <- ReplyOf(sv)

(* Whatever the order of clauses, questions, restarts and deletions, the   *)
(* solver's answers are true of the clauses given so far.                  *)
ImplementsOracle == Oracle!OracleSpec
=============================================================================
