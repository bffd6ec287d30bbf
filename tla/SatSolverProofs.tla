-------------------------- MODULE SatSolverProofs --------------------------
(***************************************************************************)
(* Proofs about SatSolver, for all problems, questions and budgets, every  *)
(* choice of the heuristics and every number of calls.                     *)
(***************************************************************************)
EXTENDS SatSolver, Induction, SequenceTheorems

Fields == {"ok", "lits", "clauses", "learnts", "unitId", "order", "watches", "assigns", "trail",
           "trailLim", "reason", "level", "trailPos", "rootLevel", "qhead", "simpAssigns",
           "model", "conflict", "conflictId", "conflicts", "log", "gone"}
Shaped(s) == DOMAIN s = Fields

-----------------------------------------------------------------------------
(***************************************************************************)
(* The invariant, in parts.                                                *)
(***************************************************************************)
LitsOf(s) == {p \in Nat : Var(p) \in Vars(s)}
At(s, p) == s.trailPos[Var(p)]

\* Every field has its type.
Typed(s) ==
    /\ Shaped(s) /\ s.ok \in BOOLEAN
    /\ IsFiniteSet(Vars(s)) /\ Vars(s) \subseteq Nat
    /\ s.assigns \in [Vars(s) -> {True, False, Undef}]
    /\ s.reason \in [Vars(s) -> Nat] /\ s.unitId \in [Vars(s) -> Nat]
    /\ s.level \in [Vars(s) -> Int] /\ s.trailPos \in [Vars(s) -> Int]
    /\ s.trail \in Seq(LitsOf(s)) /\ s.trailLim \in Seq(Nat)
    /\ s.qhead \in Nat /\ s.rootLevel \in Nat /\ s.simpAssigns \in Nat
    /\ s.log \in Seq(Range(s.log))

\* A clause that is kept has two literals at least, of different variables.
IsClause(s, ls) ==
    /\ ls \in Seq(LitsOf(s)) /\ Len(ls) >= 2
    /\ \A i, j \in DOMAIN ls : Var(ls[i]) = Var(ls[j]) => i = j
Stored(s) ==
    /\ s.lits = [c \in DOMAIN s.lits |-> s.lits[c]] /\ DOMAIN s.lits \subseteq 1 .. LastId(s)
    /\ s.clauses \cup s.learnts = DOMAIN s.lits /\ s.clauses \cap s.learnts = {}
    /\ \A c \in DOMAIN s.lits : IsClause(s, s.lits[c])

\* The trail holds the true literals, each at the place noted for its
\* variable; the levels begin in order, and what is not propagated yet is of
\* the last one.
Trailed(s) ==
    /\ \A i \in 1 .. NAssigns(s) : Value(s, s.trail[i]) = True /\ At(s, s.trail[i]) = i - 1
    /\ \A v \in Vars(s) : s.assigns[v] # Undef =>
         s.trailPos[v] \in 0 .. NAssigns(s) - 1 /\ Var(s.trail[s.trailPos[v] + 1]) = v
    /\ \A i \in 1 .. DecisionLevel(s) :
         s.trailLim[i] <= s.qhead /\ \A j \in 1 .. i : s.trailLim[j] <= s.trailLim[i]
    /\ s.qhead <= NAssigns(s)

\* The level of a variable is the one it was assigned at, or 0 for a unit
\* learnt under assumptions.
LevelFits(s, v) ==
    /\ s.level[v] \in 0 .. DecisionLevel(s)
    /\ s.level[v] > 0 => s.trailLim[s.level[v]] <= s.trailPos[v]
    /\ \A k \in 1 .. DecisionLevel(s) : k > s.level[v] =>
         s.trailPos[v] < s.trailLim[k] \/ (s.level[v] = 0 /\ k <= s.rootLevel)
Levelled(s) == \A v \in Vars(s) : s.assigns[v] # Undef => LevelFits(s, v)

\* Reasons are alive, and what has none is of level 0 or a decision; above the
\* root a variable was implied by another of its level.
Implies(s, ls, v) ==
    /\ Var(ls[1]) = v /\ Value(s, ls[1]) = True
    /\ \A i \in 2 .. Len(ls) : IsFalse(s, ls[i]) /\ At(s, ls[i]) < s.trailPos[v]
    /\ s.level[v] > s.rootLevel => \E i \in 2 .. Len(ls) : s.level[Var(ls[i])] = s.level[v]
Reasoned(s) ==
    /\ \A v \in Vars(s) : s.reason[v] # NoClause =>
         s.reason[v] \in DOMAIN s.lits /\ Implies(s, s.lits[s.reason[v]], v)
    /\ \A v \in Vars(s) : s.assigns[v] # Undef /\ s.reason[v] = NoClause =>
         s.level[v] = 0 \/ s.trailPos[v] = s.trailLim[s.level[v]]

\* The lists of watches; those of the variables that simplifyDB has seen
\* settled are empty, and a clause that one of them satisfies is its reason.
Settled(s, v) == s.assigns[v] # Undef /\ s.trailPos[v] < s.simpAssigns
Fixed(s, c) == Locked(s, c) /\ Settled(s, Var(s.lits[c][1]))
Lists(s, w) ==
    /\ w \in [LitsOf(s) -> Seq(Nat)]
    /\ \A p \in LitsOf(s) : \A i, j \in DOMAIN w[p] : w[p][i] = w[p][j] => i = j
Places(w) == [p \in DOMAIN w |-> Range(w[p])]
Covers(s, R) ==
    /\ \A p \in LitsOf(s) : \A c \in R[p] :
         c \in DOMAIN s.lits /\ Neg(p) \in {s.lits[c][1], s.lits[c][2]}
    /\ \A p \in LitsOf(s) : Settled(s, Var(p)) => R[p] = {}
    /\ \A c \in DOMAIN s.lits : Fixed(s, c) \/ \A i \in {1, 2} : c \in R[Neg(s.lits[c][i])]
Listed(s) == Lists(s, s.watches) /\ Covers(s, Places(s.watches))
Simplified(s) ==
    /\ s.simpAssigns <= NAssigns(s) /\ (DecisionLevel(s) >= 1 => s.simpAssigns <= s.trailLim[1])
    /\ \A c \in DOMAIN s.lits : \A i \in DOMAIN s.lits[c] :
         Value(s, s.lits[c][i]) = True /\ Settled(s, Var(s.lits[c][i])) => Fixed(s, c)

\* Of a clause of which a watch is false and was propagated up to h the other
\* watch is true, and stays so as long as the first is false.
Outlives(s, p, q) ==
    \A k \in 1 .. DecisionLevel(s) :
        (k = 1 \/ k > s.rootLevel) /\ At(s, q) < s.trailLim[k] => At(s, p) < s.trailLim[k]
Guards(s, p, q) == Value(s, p) = True /\ Outlives(s, p, q)
Awake(s, c, h, late) ==
    \A i \in {1, 2} :
        LET q == s.lits[c][i] IN
        IsFalse(s, q) /\ At(s, q) < h /\ (c \in late => At(s, q) # h - 1) => Guards(s, s.lits[c][3 - i], q)
Watching(s, h, late) == \A c \in DOMAIN s.lits : Awake(s, c, h, late)

Coherent(s) == Typed(s) /\ Stored(s) /\ Trailed(s) /\ Levelled(s) /\ Reasoned(s) /\ Simplified(s)
Sound(s) == Coherent(s) /\ Listed(s) /\ Unassigned(s) \subseteq s.order

LevelStart(s) == IF DecisionLevel(s) = 0 THEN 0 ELSE s.trailLim[DecisionLevel(s)]

\* A clause that is false, of which both watches are of the last level.
InConflict(s, c) ==
    /\ c \in DOMAIN s.lits
    /\ \A i \in DOMAIN s.lits[c] : IsFalse(s, s.lits[c][i])
    /\ \A i \in {1, 2} : At(s, s.lits[c][i]) >= LevelStart(s)
    /\ Watching(s, LevelStart(s), {})

Callable == {C \in SUBSET Nat : IsFiniteSet(C)}
Askable == {q \in Seq(Nat) : \A p \in Range(q) : Neg(p) \notin Range(q)}
Searching == {"propagate", "conflict", "decide"}

CallFields == {"assumps", "budget", "nofLearnts", "starts", "limit", "conflictC", "confl"}

\* The solver s at the point p of a call with the assumptions q.
Fits(s, p, q, confl) ==
    /\ Sound(s)
    /\ p \in {"idle", "enter"} => DecisionLevel(s) = 0 /\ (s.ok => Watching(s, s.qhead, {}))
    /\ p = "enter" => Range(q) \subseteq LitsOf(s)
    /\ p \in Searching => DecisionLevel(s) >= s.rootLevel
    /\ p \in {"propagate", "decide"} => s.ok /\ Watching(s, s.qhead, {})
    /\ p = "decide" => s.qhead = NAssigns(s)
    /\ p = "conflict" => InConflict(s, confl) /\ s.ok = (DecisionLevel(s) > 0)

IInv ==
    /\ todo \in Seq(Callable)
    /\ pc \in Points /\ said \in {"none", "sat", "unsat", "unknown"} /\ solves \in 0 .. MaxSolves
    /\ DOMAIN call = CallFields /\ call.assumps \in Askable
    /\ Fits(sv, pc, call.assumps, call.confl)

-----------------------------------------------------------------------------
(***************************************************************************)
(* Literals, sequences and sets of numbers.                                *)
(***************************************************************************)
LEMMA Literal ==
  ASSUME NEW p \in Nat
  PROVE  /\ Var(p) \in Nat /\ Sign(p) \in {0, 1} /\ Neg(p) \in Nat /\ Neg(p) # p
         /\ Var(Neg(p)) = Var(p) /\ Neg(Neg(p)) = p /\ Sign(Neg(p)) = 1 - Sign(p)
<1>1. Var(p) \in Nat /\ Sign(p) \in {0, 1} /\ p = 2 * Var(p) + Sign(p)
  BY DEF Var, Sign
<1>2. CASE Sign(p) = 0
  <2>1. Neg(p) = p + 1 /\ Sign(p + 1) = 1 /\ Var(p + 1) = Var(p)
    BY <1>2 DEF Neg, Sign, Var
  <2>2. Neg(Neg(p)) = p
    BY <1>2, <2>1 DEF Neg
  <2>3. QED
    BY <1>1, <1>2, <2>1, <2>2
<1>3. CASE Sign(p) = 1
  <2>1. p - 1 \in Nat /\ Neg(p) = p - 1 /\ Sign(p - 1) = 0 /\ Var(p - 1) = Var(p)
    BY <1>3 DEF Neg, Sign, Var
  <2>2. Neg(Neg(p)) = p
    BY <1>3, <2>1 DEF Neg
  <2>3. QED
    BY <1>1, <1>3, <2>1, <2>2
<1>4. QED
  BY <1>1, <1>2, <1>3

\* Two literals of a variable are equal or opposite.
LEMMA SameVar ==
  ASSUME NEW p \in Nat, NEW q \in Nat, Var(p) = Var(q)
  PROVE  p = q \/ p = Neg(q)
BY DEF Var, Neg, Sign

\* The positive literal of a variable.
LEMMA LiteralOf ==
  ASSUME NEW v \in Nat
  PROVE  PosLit(v) \in Nat /\ Var(PosLit(v)) = v /\ Sign(PosLit(v)) = 0
BY DEF PosLit, Var, Sign

\* With a literal the solver knows its negation.
LEMMA NegIn == ASSUME NEW s, NEW p \in LitsOf(s) PROVE Neg(p) \in LitsOf(s) /\ p \in Nat /\ Var(p) \in Vars(s)
BY Literal DEF LitsOf

(* The value of a literal and of its negation.                             *)
LEMMA Values ==
  ASSUME NEW s, Vars(s) \subseteq Nat, s.assigns \in [Vars(s) -> {True, False, Undef}], NEW p \in LitsOf(s)
  PROVE  /\ Value(s, p) \in {True, False, Undef}
         /\ Value(s, p) = Undef <=> s.assigns[Var(p)] = Undef
         /\ Value(s, Neg(p)) = Undef <=> Value(s, p) = Undef
         /\ Value(s, Neg(p)) = True <=> IsFalse(s, p)
         /\ IsFalse(s, Neg(p)) <=> Value(s, p) = True
         /\ True # False /\ True # Undef /\ False # Undef
<1>1. Var(p) \in Vars(s) /\ Sign(p) \in {0, 1} /\ Var(Neg(p)) = Var(p) /\ Sign(Neg(p)) = 1 - Sign(p)
  BY Literal DEF LitsOf
<1>2. s.assigns[Var(p)] \in {1, -1, 0}
  BY <1>1 DEF True, False, Undef
<1>3. Value(s, p) = (IF Sign(p) = 1 THEN -s.assigns[Var(p)] ELSE s.assigns[Var(p)])
  BY DEF Value
<1>4. Value(s, Neg(p)) = (IF Sign(Neg(p)) = 1 THEN -s.assigns[Var(p)] ELSE s.assigns[Var(p)])
  BY <1>1 DEF Value
<1>5. QED
  BY <1>1, <1>2, <1>3, <1>4 DEF IsFalse, True, False, Undef

\* The extremes of two numbers.
LEMMA PairExtremes ==
  ASSUME NEW a \in Int, NEW b \in Int
  PROVE  Max({a, b}) = (IF a < b THEN b ELSE a) /\ Min({a, b}) = (IF a < b THEN a ELSE b)
<1>1. PICK m : m \in {a, b} /\ \A y \in {a, b} : m >= y
  BY \A y \in {a, b} : (IF a < b THEN b ELSE a) >= y
<1>2. PICK l : l \in {a, b} /\ \A y \in {a, b} : l <= y
  BY \A y \in {a, b} : (IF a < b THEN a ELSE b) <= y
<1>3. Max({a, b}) \in {a, b} /\ \A y \in {a, b} : Max({a, b}) >= y
  BY <1>1 DEF Max
<1>4. Min({a, b}) \in {a, b} /\ \A y \in {a, b} : Min({a, b}) <= y
  BY <1>2 DEF Min
<1>5. QED
  BY <1>3, <1>4

(* A set of numbers up to n has a least and a greatest member.             *)
LEMMA HasExtremes ==
  ASSUME NEW n \in Nat, NEW T \in SUBSET (1 .. n), T # {}
  PROVE  /\ Max(T) \in T /\ \A y \in T : y <= Max(T)
         /\ Min(T) \in T /\ \A y \in T : Min(T) <= y
<1> DEFINE S == {m \in Nat : \A U \in SUBSET (1 .. m) : U # {} =>
                   (\E x \in U : \A y \in U : x >= y) /\ (\E x \in U : \A y \in U : x <= y)}
<1>1. 0 \in S
  <2>1. 1 .. 0 = {}
    OBVIOUS
  <2>2. QED
    BY <2>1
<1>2. ASSUME NEW m \in Nat, m \in S PROVE m + 1 \in S
  <2>1. SUFFICES ASSUME NEW U \in SUBSET (1 .. m + 1), U # {}
                 PROVE  (\E x \in U : \A y \in U : x >= y) /\ (\E x \in U : \A y \in U : x <= y)
    OBVIOUS
  <2> DEFINE V == U \ {m + 1}
  <2>2. V \in SUBSET (1 .. m)
    OBVIOUS
  <2>3. CASE V = {}
    <3>1. U = {m + 1}
      BY <2>1, <2>3
    <3>2. QED
      BY <3>1
  <2>4. CASE V # {}
    <3>1. (\E x \in V : \A y \in V : x >= y) /\ (\E x \in V : \A y \in V : x <= y)
      BY <1>2, <2>2, <2>4
    <3>2. PICK x \in V : \A y \in V : x <= y
      BY <3>1
    <3>3. \A y \in U : x <= y
      BY <2>2, <3>2
    <3>4. CASE m + 1 \in U
      BY <3>2, <3>3, <3>4
    <3>5. CASE m + 1 \notin U
      BY <3>1, <3>5
    <3>6. QED
      BY <3>4, <3>5
  <2>5. QED
    BY <2>3, <2>4
<1>3. n \in S
  <2> HIDE DEF S
  <2>1. QED
    BY <1>1, <1>2, AllNumbers
<1>4. (\E x \in T : \A y \in T : x >= y) /\ (\E x \in T : \A y \in T : x <= y)
  BY <1>3
<1>5. Max(T) \in T /\ \A y \in T : Max(T) >= y
  BY <1>4 DEF Max
<1>6. Min(T) \in T /\ \A y \in T : Min(T) <= y
  BY <1>4 DEF Min
<1>7. QED
  BY <1>5, <1>6

\* The first members of a sequence.
LEMMA Prefix ==
  ASSUME NEW T, NEW f \in Seq(T), NEW n \in 0 .. Len(f)
  PROVE  /\ SubSeq(f, 1, n) \in Seq(T) /\ Len(SubSeq(f, 1, n)) = n
         /\ \A i \in 1 .. n : SubSeq(f, 1, n)[i] = f[i]
OBVIOUS

\* All but the first.
LEMMA Rest ==
  ASSUME NEW T, NEW f \in Seq(T), Len(f) >= 1
  PROVE  /\ AllButOne(f) \in Seq(T) /\ Len(AllButOne(f)) = Len(f) - 1
         /\ \A i \in 1 .. Len(f) - 1 : AllButOne(f)[i] = f[i + 1]
         /\ Range(AllButOne(f)) = {f[i] : i \in 2 .. Len(f)}
<1>1. /\ AllButOne(f) \in Seq(T) /\ Len(AllButOne(f)) = Len(f) - 1
      /\ \A i \in 1 .. Len(f) - 1 : AllButOne(f)[i] = f[i + 1]
  <2>1. \A i \in 2 .. Len(f) : f[i] \in T
    OBVIOUS
  <2>2. 2 \in Int /\ Len(f) \in Int
    OBVIOUS
  <2>3. /\ SubSeq(f, 2, Len(f)) \in Seq(T)
        /\ Len(SubSeq(f, 2, Len(f))) = IF 2 <= Len(f) THEN Len(f) - 2 + 1 ELSE 0
        /\ \A i \in 1 .. Len(f) - 2 + 1 : SubSeq(f, 2, Len(f))[i] = f[2 + i - 1]
    BY <2>1, <2>2, SubSeqProperties
  <2>4. Len(f) - 2 + 1 = Len(f) - 1 /\ \A i \in 1 .. Len(f) - 1 : 2 + i - 1 = i + 1
    BY <2>2
  <2>5. QED
    BY <2>3, <2>4 DEF AllButOne
<1>2. DOMAIN AllButOne(f) = 1 .. Len(f) - 1 /\ Len(f) \in Nat
  BY <1>1
<1>3. ASSUME NEW x \in Range(AllButOne(f)) PROVE x \in {f[i] : i \in 2 .. Len(f)}
  <2>1. PICK i \in 1 .. Len(f) - 1 : x = AllButOne(f)[i]
    BY <1>2, <1>3 DEF Range
  <2>2. i + 1 \in 2 .. Len(f) /\ x = f[i + 1]
    BY <1>1, <1>2, <2>1
  <2>3. QED
    BY <2>2
<1>4. ASSUME NEW i \in 2 .. Len(f) PROVE f[i] \in Range(AllButOne(f))
  <2>1. i - 1 \in 1 .. Len(f) - 1 /\ (i - 1) + 1 = i
    BY <1>2
  <2>2. AllButOne(f)[i - 1] = f[i]
    BY <1>1, <2>1
  <2>3. QED
    BY <1>2, <2>1, <2>2 DEF Range
<1>5. QED
  BY <1>1, <1>3, <1>4

\* What an appended member adds.
LEMMA RangeAppend ==
  ASSUME NEW T, NEW f \in Seq(T), NEW c
  PROVE  /\ Range(Append(f, c)) = Range(f) \cup {c} /\ Len(Append(f, c)) = Len(f) + 1
         /\ Append(f, c) \in Seq(T \cup {c}) /\ Append(f, c)[Len(f) + 1] = c
         /\ \A i \in 1 .. Len(f) : Append(f, c)[i] = f[i]
         /\ DOMAIN Append(f, c) = 1 .. Len(f) + 1
<1>1. /\ Len(Append(f, c)) = Len(f) + 1 /\ Append(f, c)[Len(f) + 1] = c
      /\ \A i \in 1 .. Len(f) : Append(f, c)[i] = f[i]
      /\ DOMAIN Append(f, c) = 1 .. Len(f) + 1 /\ DOMAIN f = 1 .. Len(f) /\ Len(f) \in Nat
  OBVIOUS
<1>2. f \in Seq(T \cup {c}) /\ c \in T \cup {c}
  OBVIOUS
<1>3. Append(f, c) \in Seq(T \cup {c})
  BY <1>2
<1>4. ASSUME NEW x \in Range(Append(f, c)) PROVE x \in Range(f) \cup {c}
  <2>1. PICK i \in 1 .. Len(f) + 1 : x = Append(f, c)[i]
    BY <1>1, <1>4 DEF Range
  <2>2. i = Len(f) + 1 \/ i \in 1 .. Len(f)
    BY <1>1
  <2>3. QED
    BY <1>1, <2>1, <2>2 DEF Range
<1>5. ASSUME NEW i \in 1 .. Len(f) PROVE f[i] \in Range(Append(f, c))
  <2>1. i \in 1 .. Len(f) + 1
    BY <1>1
  <2>2. QED
    BY <1>1, <2>1 DEF Range
<1>6. c \in Range(Append(f, c))
  <2>1. Len(f) + 1 \in 1 .. Len(f) + 1
    BY <1>1
  <2>2. QED
    BY <1>1, <2>1 DEF Range
<1>7. QED
  BY <1>1, <1>3, <1>4, <1>5, <1>6 DEF Range

\* The members of a sequence.
LEMMA RangeIn ==
  ASSUME NEW T, NEW f \in Seq(T)
  PROVE  Range(f) \subseteq T /\ Len(f) \in Nat /\ DOMAIN f = 1 .. Len(f) /\ \A i \in 1 .. Len(f) : f[i] \in Range(f)
BY DEF Range
-----------------------------------------------------------------------------
(***************************************************************************)
(* The loops of the solver, as equations.                                  *)
(***************************************************************************)

\* The equations of the walk through a watch list.
LEMMA VisitSteps ==
  ASSUME NEW s, NEW p, Len(s.watches[p]) \in Nat
  PROVE  /\ Visits(s, p)[0] = Dequeued(s)
         /\ \A k \in 1 .. Len(s.watches[p]) : Visits(s, p)[k] = Visit(Visits(s, p)[k - 1], p, s.watches[p][k])
<1> DEFINE n == Len(s.watches[p])
           Eq(f, m) == f = [k \in 0 .. m |-> IF k = 0 THEN Dequeued(s) ELSE Visit(f[k - 1], p, s.watches[p][k])]
           S == {m \in Nat : \E f : Eq(f, m)}
<1>1. 0 \in S
  <2> DEFINE f == [k \in 0 .. 0 |-> Dequeued(s)]
  <2>1. Eq(f, 0)
    OBVIOUS
  <2>2. QED
    BY <2>1
<1>2. ASSUME NEW m \in Nat, m \in S PROVE m + 1 \in S
  <2>1. PICK f : Eq(f, m)
    BY <1>2
  <2> DEFINE g == [k \in 0 .. m + 1 |-> IF k <= m THEN f[k] ELSE Visit(f[m], p, s.watches[p][(m + 1)])]
  <2>2. ASSUME NEW k \in 0 .. m + 1
        PROVE  g[k] = IF k = 0 THEN Dequeued(s) ELSE Visit(g[k - 1], p, s.watches[p][k])
    <3>1. CASE k <= m
      BY <2>1, <3>1
    <3>2. CASE k = m + 1
      <4>1. k - 1 = m /\ m \in 0 .. m + 1 /\ m <= m /\ ~(k <= m) /\ k # 0
        BY <3>2
      <4>2. g[k - 1] = f[m]
        BY <4>1
      <4>3. g[k] = Visit(f[m], p, s.watches[p][(m + 1)])
        BY <4>1
      <4>4. QED
        BY <3>2, <4>1, <4>2, <4>3
    <3>3. QED
      BY <3>1, <3>2
  <2>3. Eq(g, m + 1)
    <3>1. g = [k \in 0 .. m + 1 |-> g[k]]
      OBVIOUS
    <3> HIDE DEF g
    <3>2. QED
      BY <2>2, <3>1, Zenon
  <2> HIDE DEF g, Eq
  <2>4. \E h : Eq(h, m + 1)
    BY <2>3
  <2>5. QED
    BY <2>4
<1>3. n \in S
  <2> HIDE DEF S
  <2>1. QED
    BY <1>1, <1>2, AllNumbers
<1>4. Eq(Visits(s, p), n)
  <2>1. \E f : Eq(f, n)
    BY <1>3
  <2>2. QED
    BY <2>1, Zenon DEF Visits
<1>5. QED
  BY <1>4

\* The equations of the loop of propagate.
LEMMA RoundSteps ==
  ASSUME NEW s, Cardinality(Vars(s)) \in Nat
  PROVE  /\ Rounds(s)[0] = Quiet(s)
         /\ \A k \in 1 .. Cardinality(Vars(s)) : Rounds(s)[k] = Round(Rounds(s)[k - 1])
<1> DEFINE n == Cardinality(Vars(s))
           Eq(f, m) == f = [k \in 0 .. m |-> IF k = 0 THEN Quiet(s) ELSE Round(f[k - 1])]
           S == {m \in Nat : \E f : Eq(f, m)}
<1>1. 0 \in S
  <2> DEFINE f == [k \in 0 .. 0 |-> Quiet(s)]
  <2>1. Eq(f, 0)
    OBVIOUS
  <2>2. QED
    BY <2>1
<1>2. ASSUME NEW m \in Nat, m \in S PROVE m + 1 \in S
  <2>1. PICK f : Eq(f, m)
    BY <1>2
  <2> DEFINE g == [k \in 0 .. m + 1 |-> IF k <= m THEN f[k] ELSE Round(f[m])]
  <2>2. ASSUME NEW k \in 0 .. m + 1
        PROVE  g[k] = IF k = 0 THEN Quiet(s) ELSE Round(g[k - 1])
    <3>1. CASE k <= m
      BY <2>1, <3>1
    <3>2. CASE k = m + 1
      <4>1. k - 1 = m /\ m \in 0 .. m + 1 /\ m <= m /\ ~(k <= m) /\ k # 0
        BY <3>2
      <4>2. g[k - 1] = f[m]
        BY <4>1
      <4>3. g[k] = Round(f[m])
        BY <4>1
      <4>4. QED
        BY <3>2, <4>1, <4>2, <4>3
    <3>3. QED
      BY <3>1, <3>2
  <2>3. Eq(g, m + 1)
    <3>1. g = [k \in 0 .. m + 1 |-> g[k]]
      OBVIOUS
    <3> HIDE DEF g
    <3>2. QED
      BY <2>2, <3>1, Zenon
  <2> HIDE DEF g, Eq
  <2>4. \E h : Eq(h, m + 1)
    BY <2>3
  <2>5. QED
    BY <2>4
<1>3. n \in S
  <2> HIDE DEF S
  <2>1. QED
    BY <1>1, <1>2, AllNumbers
<1>4. Eq(Rounds(s), n)
  <2>1. \E f : Eq(f, n)
    BY <1>3
  <2>2. QED
    BY <2>1, Zenon DEF Rounds
<1>5. QED
  BY <1>4

\* The equations of the removal of clauses.
LEMMA RemoveSteps ==
  ASSUME NEW s, NEW cs, LastId(s) \in Nat
  PROVE  /\ Removals(s, cs)[0] = s
         /\ \A k \in 1 .. LastId(s) : Removals(s, cs)[k] = RemoveIfIn(Removals(s, cs)[k - 1], k, cs)
<1> DEFINE n == LastId(s)
           Eq(f, m) == f = [k \in 0 .. m |-> IF k = 0 THEN s ELSE RemoveIfIn(f[k - 1], k, cs)]
           S == {m \in Nat : \E f : Eq(f, m)}
<1>1. 0 \in S
  <2> DEFINE f == [k \in 0 .. 0 |-> s]
  <2>1. Eq(f, 0)
    OBVIOUS
  <2>2. QED
    BY <2>1
<1>2. ASSUME NEW m \in Nat, m \in S PROVE m + 1 \in S
  <2>1. PICK f : Eq(f, m)
    BY <1>2
  <2> DEFINE g == [k \in 0 .. m + 1 |-> IF k <= m THEN f[k] ELSE RemoveIfIn(f[m], (m + 1), cs)]
  <2>2. ASSUME NEW k \in 0 .. m + 1
        PROVE  g[k] = IF k = 0 THEN s ELSE RemoveIfIn(g[k - 1], k, cs)
    <3>1. CASE k <= m
      BY <2>1, <3>1
    <3>2. CASE k = m + 1
      <4>1. k - 1 = m /\ m \in 0 .. m + 1 /\ m <= m /\ ~(k <= m) /\ k # 0
        BY <3>2
      <4>2. g[k - 1] = f[m]
        BY <4>1
      <4>3. g[k] = RemoveIfIn(f[m], (m + 1), cs)
        BY <4>1
      <4>4. QED
        BY <3>2, <4>1, <4>2, <4>3
    <3>3. QED
      BY <3>1, <3>2
  <2>3. Eq(g, m + 1)
    <3>1. g = [k \in 0 .. m + 1 |-> g[k]]
      OBVIOUS
    <3> HIDE DEF g
    <3>2. QED
      BY <2>2, <3>1, Zenon
  <2> HIDE DEF g, Eq
  <2>4. \E h : Eq(h, m + 1)
    BY <2>3
  <2>5. QED
    BY <2>4
<1>3. n \in S
  <2> HIDE DEF S
  <2>1. QED
    BY <1>1, <1>2, AllNumbers
<1>4. Eq(Removals(s, cs), n)
  <2>1. \E f : Eq(f, n)
    BY <1>3
  <2>2. QED
    BY <2>1, Zenon DEF Removals
<1>5. QED
  BY <1>4

\* The equations of the loop over the assumptions.
LEMMA AssumeSteps ==
  ASSUME NEW s, NEW q, Len(q) \in Nat
  PROVE  /\ Assumed(s, q)[0] = Unassumed(s, q)
         /\ \A k \in 1 .. Len(q) : Assumed(s, q)[k] = AssumeOne(Assumed(s, q)[k - 1], q[k])
<1> DEFINE n == Len(q)
           Eq(f, m) == f = [k \in 0 .. m |-> IF k = 0 THEN Unassumed(s, q) ELSE AssumeOne(f[k - 1], q[k])]
           S == {m \in Nat : \E f : Eq(f, m)}
<1>1. 0 \in S
  <2> DEFINE f == [k \in 0 .. 0 |-> Unassumed(s, q)]
  <2>1. Eq(f, 0)
    OBVIOUS
  <2>2. QED
    BY <2>1
<1>2. ASSUME NEW m \in Nat, m \in S PROVE m + 1 \in S
  <2>1. PICK f : Eq(f, m)
    BY <1>2
  <2> DEFINE g == [k \in 0 .. m + 1 |-> IF k <= m THEN f[k] ELSE AssumeOne(f[m], q[(m + 1)])]
  <2>2. ASSUME NEW k \in 0 .. m + 1
        PROVE  g[k] = IF k = 0 THEN Unassumed(s, q) ELSE AssumeOne(g[k - 1], q[k])
    <3>1. CASE k <= m
      BY <2>1, <3>1
    <3>2. CASE k = m + 1
      <4>1. k - 1 = m /\ m \in 0 .. m + 1 /\ m <= m /\ ~(k <= m) /\ k # 0
        BY <3>2
      <4>2. g[k - 1] = f[m]
        BY <4>1
      <4>3. g[k] = AssumeOne(f[m], q[(m + 1)])
        BY <4>1
      <4>4. QED
        BY <3>2, <4>1, <4>2, <4>3
    <3>3. QED
      BY <3>1, <3>2
  <2>3. Eq(g, m + 1)
    <3>1. g = [k \in 0 .. m + 1 |-> g[k]]
      OBVIOUS
    <3> HIDE DEF g
    <3>2. QED
      BY <2>2, <3>1, Zenon
  <2> HIDE DEF g, Eq
  <2>4. \E h : Eq(h, m + 1)
    BY <2>3
  <2>5. QED
    BY <2>4
<1>3. n \in S
  <2> HIDE DEF S
  <2>1. QED
    BY <1>1, <1>2, AllNumbers
<1>4. Eq(Assumed(s, q), n)
  <2>1. \E f : Eq(f, n)
    BY <1>3
  <2>2. QED
    BY <2>1, Zenon DEF Assumed
<1>5. QED
  BY <1>4

\* The equations of the loop over the literals of a clause in analyze.
LEMMA MeetSteps ==
  ASSUME NEW s, NEW a, NEW ls, Len(ls) \in Nat
  PROVE  /\ Meetings(s, a, ls)[0] = a
         /\ \A k \in 1 .. Len(ls) : Meetings(s, a, ls)[k] = MeetLiteral(s, Meetings(s, a, ls)[k - 1], ls[k])
<1> DEFINE n == Len(ls)
           Eq(f, m) == f = [k \in 0 .. m |-> IF k = 0 THEN a ELSE MeetLiteral(s, f[k - 1], ls[k])]
           S == {m \in Nat : \E f : Eq(f, m)}
<1>1. 0 \in S
  <2> DEFINE f == [k \in 0 .. 0 |-> a]
  <2>1. Eq(f, 0)
    OBVIOUS
  <2>2. QED
    BY <2>1
<1>2. ASSUME NEW m \in Nat, m \in S PROVE m + 1 \in S
  <2>1. PICK f : Eq(f, m)
    BY <1>2
  <2> DEFINE g == [k \in 0 .. m + 1 |-> IF k <= m THEN f[k] ELSE MeetLiteral(s, f[m], ls[(m + 1)])]
  <2>2. ASSUME NEW k \in 0 .. m + 1
        PROVE  g[k] = IF k = 0 THEN a ELSE MeetLiteral(s, g[k - 1], ls[k])
    <3>1. CASE k <= m
      BY <2>1, <3>1
    <3>2. CASE k = m + 1
      <4>1. k - 1 = m /\ m \in 0 .. m + 1 /\ m <= m /\ ~(k <= m) /\ k # 0
        BY <3>2
      <4>2. g[k - 1] = f[m]
        BY <4>1
      <4>3. g[k] = MeetLiteral(s, f[m], ls[(m + 1)])
        BY <4>1
      <4>4. QED
        BY <3>2, <4>1, <4>2, <4>3
    <3>3. QED
      BY <3>1, <3>2
  <2>3. Eq(g, m + 1)
    <3>1. g = [k \in 0 .. m + 1 |-> g[k]]
      OBVIOUS
    <3> HIDE DEF g
    <3>2. QED
      BY <2>2, <3>1, Zenon
  <2> HIDE DEF g, Eq
  <2>4. \E h : Eq(h, m + 1)
    BY <2>3
  <2>5. QED
    BY <2>4
<1>3. n \in S
  <2> HIDE DEF S
  <2>1. QED
    BY <1>1, <1>2, AllNumbers
<1>4. Eq(Meetings(s, a, ls), n)
  <2>1. \E f : Eq(f, n)
    BY <1>3
  <2>2. QED
    BY <2>1, Zenon DEF Meetings
<1>5. QED
  BY <1>4

\* The equations of the way back to the first unique implication point.
LEMMA BackSteps ==
  ASSUME NEW s, NEW a, NAssigns(s) \in Nat
  PROVE  /\ WaysBack(s, a)[0] = a
         /\ \A k \in 1 .. NAssigns(s) : WaysBack(s, a)[k] = ResolveBack(s, WaysBack(s, a)[k - 1])
<1> DEFINE n == NAssigns(s)
           Eq(f, m) == f = [k \in 0 .. m |-> IF k = 0 THEN a ELSE ResolveBack(s, f[k - 1])]
           S == {m \in Nat : \E f : Eq(f, m)}
<1>1. 0 \in S
  <2> DEFINE f == [k \in 0 .. 0 |-> a]
  <2>1. Eq(f, 0)
    OBVIOUS
  <2>2. QED
    BY <2>1
<1>2. ASSUME NEW m \in Nat, m \in S PROVE m + 1 \in S
  <2>1. PICK f : Eq(f, m)
    BY <1>2
  <2> DEFINE g == [k \in 0 .. m + 1 |-> IF k <= m THEN f[k] ELSE ResolveBack(s, f[m])]
  <2>2. ASSUME NEW k \in 0 .. m + 1
        PROVE  g[k] = IF k = 0 THEN a ELSE ResolveBack(s, g[k - 1])
    <3>1. CASE k <= m
      BY <2>1, <3>1
    <3>2. CASE k = m + 1
      <4>1. k - 1 = m /\ m \in 0 .. m + 1 /\ m <= m /\ ~(k <= m) /\ k # 0
        BY <3>2
      <4>2. g[k - 1] = f[m]
        BY <4>1
      <4>3. g[k] = ResolveBack(s, f[m])
        BY <4>1
      <4>4. QED
        BY <3>2, <4>1, <4>2, <4>3
    <3>3. QED
      BY <3>1, <3>2
  <2>3. Eq(g, m + 1)
    <3>1. g = [k \in 0 .. m + 1 |-> g[k]]
      OBVIOUS
    <3> HIDE DEF g
    <3>2. QED
      BY <2>2, <3>1, Zenon
  <2> HIDE DEF g, Eq
  <2>4. \E h : Eq(h, m + 1)
    BY <2>3
  <2>5. QED
    BY <2>4
<1>3. n \in S
  <2> HIDE DEF S
  <2>1. QED
    BY <1>1, <1>2, AllNumbers
<1>4. Eq(WaysBack(s, a), n)
  <2>1. \E f : Eq(f, n)
    BY <1>3
  <2>2. QED
    BY <2>1, Zenon DEF WaysBack
<1>5. QED
  BY <1>4

\* The equations of the loop over the causes of a literal.
LEMMA CauseSteps ==
  ASSUME NEW s, NEW a, NEW ls, NEW levels, Len(ls) \in Nat
  PROVE  /\ MeetCauses(s, a, ls, levels)[0] = a
         /\ \A k \in 1 .. Len(ls) : MeetCauses(s, a, ls, levels)[k] = MeetCause(s, MeetCauses(s, a, ls, levels)[k - 1], ls[k], levels)
<1> DEFINE n == Len(ls)
           Eq(f, m) == f = [k \in 0 .. m |-> IF k = 0 THEN a ELSE MeetCause(s, f[k - 1], ls[k], levels)]
           S == {m \in Nat : \E f : Eq(f, m)}
<1>1. 0 \in S
  <2> DEFINE f == [k \in 0 .. 0 |-> a]
  <2>1. Eq(f, 0)
    OBVIOUS
  <2>2. QED
    BY <2>1
<1>2. ASSUME NEW m \in Nat, m \in S PROVE m + 1 \in S
  <2>1. PICK f : Eq(f, m)
    BY <1>2
  <2> DEFINE g == [k \in 0 .. m + 1 |-> IF k <= m THEN f[k] ELSE MeetCause(s, f[m], ls[(m + 1)], levels)]
  <2>2. ASSUME NEW k \in 0 .. m + 1
        PROVE  g[k] = IF k = 0 THEN a ELSE MeetCause(s, g[k - 1], ls[k], levels)
    <3>1. CASE k <= m
      BY <2>1, <3>1
    <3>2. CASE k = m + 1
      <4>1. k - 1 = m /\ m \in 0 .. m + 1 /\ m <= m /\ ~(k <= m) /\ k # 0
        BY <3>2
      <4>2. g[k - 1] = f[m]
        BY <4>1
      <4>3. g[k] = MeetCause(s, f[m], ls[(m + 1)], levels)
        BY <4>1
      <4>4. QED
        BY <3>2, <4>1, <4>2, <4>3
    <3>3. QED
      BY <3>1, <3>2
  <2>3. Eq(g, m + 1)
    <3>1. g = [k \in 0 .. m + 1 |-> g[k]]
      OBVIOUS
    <3> HIDE DEF g
    <3>2. QED
      BY <2>2, <3>1, Zenon
  <2> HIDE DEF g, Eq
  <2>4. \E h : Eq(h, m + 1)
    BY <2>3
  <2>5. QED
    BY <2>4
<1>3. n \in S
  <2> HIDE DEF S
  <2>1. QED
    BY <1>1, <1>2, AllNumbers
<1>4. Eq(MeetCauses(s, a, ls, levels), n)
  <2>1. \E f : Eq(f, n)
    BY <1>3
  <2>2. QED
    BY <2>1, Zenon DEF MeetCauses
<1>5. QED
  BY <1>4

\* The equations of the loop over the stack.
LEMMA PopSteps ==
  ASSUME NEW s, NEW a, NEW levels, (Cardinality(Vars(s)) + 1) \in Nat
  PROVE  /\ Pops(s, a, levels)[0] = a
         /\ \A k \in 1 .. (Cardinality(Vars(s)) + 1) : Pops(s, a, levels)[k] = PopCause(s, Pops(s, a, levels)[k - 1], levels)
<1> DEFINE n == (Cardinality(Vars(s)) + 1)
           Eq(f, m) == f = [k \in 0 .. m |-> IF k = 0 THEN a ELSE PopCause(s, f[k - 1], levels)]
           S == {m \in Nat : \E f : Eq(f, m)}
<1>1. 0 \in S
  <2> DEFINE f == [k \in 0 .. 0 |-> a]
  <2>1. Eq(f, 0)
    OBVIOUS
  <2>2. QED
    BY <2>1
<1>2. ASSUME NEW m \in Nat, m \in S PROVE m + 1 \in S
  <2>1. PICK f : Eq(f, m)
    BY <1>2
  <2> DEFINE g == [k \in 0 .. m + 1 |-> IF k <= m THEN f[k] ELSE PopCause(s, f[m], levels)]
  <2>2. ASSUME NEW k \in 0 .. m + 1
        PROVE  g[k] = IF k = 0 THEN a ELSE PopCause(s, g[k - 1], levels)
    <3>1. CASE k <= m
      BY <2>1, <3>1
    <3>2. CASE k = m + 1
      <4>1. k - 1 = m /\ m \in 0 .. m + 1 /\ m <= m /\ ~(k <= m) /\ k # 0
        BY <3>2
      <4>2. g[k - 1] = f[m]
        BY <4>1
      <4>3. g[k] = PopCause(s, f[m], levels)
        BY <4>1
      <4>4. QED
        BY <3>2, <4>1, <4>2, <4>3
    <3>3. QED
      BY <3>1, <3>2
  <2>3. Eq(g, m + 1)
    <3>1. g = [k \in 0 .. m + 1 |-> g[k]]
      OBVIOUS
    <3> HIDE DEF g
    <3>2. QED
      BY <2>2, <3>1, Zenon
  <2> HIDE DEF g, Eq
  <2>4. \E h : Eq(h, m + 1)
    BY <2>3
  <2>5. QED
    BY <2>4
<1>3. n \in S
  <2> HIDE DEF S
  <2>1. QED
    BY <1>1, <1>2, AllNumbers
<1>4. Eq(Pops(s, a, levels), n)
  <2>1. \E f : Eq(f, n)
    BY <1>3
  <2>2. QED
    BY <2>1, Zenon DEF Pops
<1>5. QED
  BY <1>4

\* The equations of the minimization.
LEMMA ShortenSteps ==
  ASSUME NEW s, NEW a, NEW rest, Len(rest) \in Nat
  PROVE  /\ Shortenings(s, a, rest)[0] = Unshortened(a)
         /\ \A k \in 1 .. Len(rest) : Shortenings(s, a, rest)[k] = Shorten(s, Shortenings(s, a, rest)[k - 1], rest[k], MinLevel(s, rest))
<1> DEFINE n == Len(rest)
           Eq(f, m) == f = [k \in 0 .. m |-> IF k = 0 THEN Unshortened(a) ELSE Shorten(s, f[k - 1], rest[k], MinLevel(s, rest))]
           S == {m \in Nat : \E f : Eq(f, m)}
<1>1. 0 \in S
  <2> DEFINE f == [k \in 0 .. 0 |-> Unshortened(a)]
  <2>1. Eq(f, 0)
    OBVIOUS
  <2>2. QED
    BY <2>1
<1>2. ASSUME NEW m \in Nat, m \in S PROVE m + 1 \in S
  <2>1. PICK f : Eq(f, m)
    BY <1>2
  <2> DEFINE g == [k \in 0 .. m + 1 |-> IF k <= m THEN f[k] ELSE Shorten(s, f[m], rest[(m + 1)], MinLevel(s, rest))]
  <2>2. ASSUME NEW k \in 0 .. m + 1
        PROVE  g[k] = IF k = 0 THEN Unshortened(a) ELSE Shorten(s, g[k - 1], rest[k], MinLevel(s, rest))
    <3>1. CASE k <= m
      BY <2>1, <3>1
    <3>2. CASE k = m + 1
      <4>1. k - 1 = m /\ m \in 0 .. m + 1 /\ m <= m /\ ~(k <= m) /\ k # 0
        BY <3>2
      <4>2. g[k - 1] = f[m]
        BY <4>1
      <4>3. g[k] = Shorten(s, f[m], rest[(m + 1)], MinLevel(s, rest))
        BY <4>1
      <4>4. QED
        BY <3>2, <4>1, <4>2, <4>3
    <3>3. QED
      BY <3>1, <3>2
  <2>3. Eq(g, m + 1)
    <3>1. g = [k \in 0 .. m + 1 |-> g[k]]
      OBVIOUS
    <3> HIDE DEF g
    <3>2. QED
      BY <2>2, <3>1, Zenon
  <2> HIDE DEF g, Eq
  <2>4. \E h : Eq(h, m + 1)
    BY <2>3
  <2>5. QED
    BY <2>4
<1>3. n \in S
  <2> HIDE DEF S
  <2>1. QED
    BY <1>1, <1>2, AllNumbers
<1>4. Eq(Shortenings(s, a, rest), n)
  <2>1. \E f : Eq(f, n)
    BY <1>3
  <2>2. QED
    BY <2>1, Zenon DEF Shortenings
<1>5. QED
  BY <1>4

\* The equations of the end of the chain.
LEMMA AwaySteps ==
  ASSUME NEW s, NEW ch, NEW clear, NAssigns(s) \in Nat
  PROVE  /\ WaysAway(s, ch, clear)[0] = ch
         /\ \A k \in 1 .. NAssigns(s) : WaysAway(s, ch, clear)[k] = ResolveAway(s, WaysAway(s, ch, clear)[k - 1], Var(FromLast(s, k)), clear)
<1> DEFINE n == NAssigns(s)
           Eq(f, m) == f = [k \in 0 .. m |-> IF k = 0 THEN ch ELSE ResolveAway(s, f[k - 1], Var(FromLast(s, k)), clear)]
           S == {m \in Nat : \E f : Eq(f, m)}
<1>1. 0 \in S
  <2> DEFINE f == [k \in 0 .. 0 |-> ch]
  <2>1. Eq(f, 0)
    OBVIOUS
  <2>2. QED
    BY <2>1
<1>2. ASSUME NEW m \in Nat, m \in S PROVE m + 1 \in S
  <2>1. PICK f : Eq(f, m)
    BY <1>2
  <2> DEFINE g == [k \in 0 .. m + 1 |-> IF k <= m THEN f[k] ELSE ResolveAway(s, f[m], Var(FromLast(s, (m + 1))), clear)]
  <2>2. ASSUME NEW k \in 0 .. m + 1
        PROVE  g[k] = IF k = 0 THEN ch ELSE ResolveAway(s, g[k - 1], Var(FromLast(s, k)), clear)
    <3>1. CASE k <= m
      BY <2>1, <3>1
    <3>2. CASE k = m + 1
      <4>1. k - 1 = m /\ m \in 0 .. m + 1 /\ m <= m /\ ~(k <= m) /\ k # 0
        BY <3>2
      <4>2. g[k - 1] = f[m]
        BY <4>1
      <4>3. g[k] = ResolveAway(s, f[m], Var(FromLast(s, (m + 1))), clear)
        BY <4>1
      <4>4. QED
        BY <3>2, <4>1, <4>2, <4>3
    <3>3. QED
      BY <3>1, <3>2
  <2>3. Eq(g, m + 1)
    <3>1. g = [k \in 0 .. m + 1 |-> g[k]]
      OBVIOUS
    <3> HIDE DEF g
    <3>2. QED
      BY <2>2, <3>1, Zenon
  <2> HIDE DEF g, Eq
  <2>4. \E h : Eq(h, m + 1)
    BY <2>3
  <2>5. QED
    BY <2>4
<1>3. n \in S
  <2> HIDE DEF S
  <2>1. QED
    BY <1>1, <1>2, AllNumbers
<1>4. Eq(WaysAway(s, ch, clear), n)
  <2>1. \E f : Eq(f, n)
    BY <1>3
  <2>2. QED
    BY <2>1, Zenon DEF WaysAway
<1>5. QED
  BY <1>4

\* The equations of the loop of analyzeFinal.
LEMMA ExplainSteps ==
  ASSUME NEW s, NEW a, NEW first, NEW from, (from - first) \in Nat
  PROVE  /\ Explanations(s, a, first, from)[0] = a
         /\ \A k \in 1 .. (from - first) : Explanations(s, a, first, from)[k] = ExplainAt(s, Explanations(s, a, first, from)[k - 1], from - k + 1)
<1> DEFINE n == (from - first)
           Eq(f, m) == f = [k \in 0 .. m |-> IF k = 0 THEN a ELSE ExplainAt(s, f[k - 1], from - k + 1)]
           S == {m \in Nat : \E f : Eq(f, m)}
<1>1. 0 \in S
  <2> DEFINE f == [k \in 0 .. 0 |-> a]
  <2>1. Eq(f, 0)
    OBVIOUS
  <2>2. QED
    BY <2>1
<1>2. ASSUME NEW m \in Nat, m \in S PROVE m + 1 \in S
  <2>1. PICK f : Eq(f, m)
    BY <1>2
  <2> DEFINE g == [k \in 0 .. m + 1 |-> IF k <= m THEN f[k] ELSE ExplainAt(s, f[m], from - (m + 1) + 1)]
  <2>2. ASSUME NEW k \in 0 .. m + 1
        PROVE  g[k] = IF k = 0 THEN a ELSE ExplainAt(s, g[k - 1], from - k + 1)
    <3>1. CASE k <= m
      BY <2>1, <3>1
    <3>2. CASE k = m + 1
      <4>1. k - 1 = m /\ m \in 0 .. m + 1 /\ m <= m /\ ~(k <= m) /\ k # 0
        BY <3>2
      <4>2. g[k - 1] = f[m]
        BY <4>1
      <4>3. g[k] = ExplainAt(s, f[m], from - (m + 1) + 1)
        BY <4>1
      <4>4. QED
        BY <3>2, <4>1, <4>2, <4>3
    <3>3. QED
      BY <3>1, <3>2
  <2>3. Eq(g, m + 1)
    <3>1. g = [k \in 0 .. m + 1 |-> g[k]]
      OBVIOUS
    <3> HIDE DEF g
    <3>2. QED
      BY <2>2, <3>1, Zenon
  <2> HIDE DEF g, Eq
  <2>4. \E h : Eq(h, m + 1)
    BY <2>3
  <2>5. QED
    BY <2>4
<1>3. n \in S
  <2> HIDE DEF S
  <2>1. QED
    BY <1>1, <1>2, AllNumbers
<1>4. Eq(Explanations(s, a, first, from), n)
  <2>1. \E f : Eq(f, n)
    BY <1>3
  <2>2. QED
    BY <2>1, Zenon DEF Explanations
<1>5. QED
  BY <1>4

\* The equations of the clauses a chain goes through.
LEMMA ResolventSteps ==
  ASSUME NEW log, NEW ch, Len(ch.vars) \in Nat
  PROVE  /\ Resolvents(log, ch)[0] = log[ch.ids[1]].lits
         /\ \A k \in 1 .. Len(ch.vars) : Resolvents(log, ch)[k] = Resolvent(Resolvents(log, ch)[k - 1], log[ch.ids[k + 1]].lits, ch.vars[k])
<1> DEFINE n == Len(ch.vars)
           Eq(f, m) == f = [k \in 0 .. m |-> IF k = 0 THEN log[ch.ids[1]].lits ELSE Resolvent(f[k - 1], log[ch.ids[k + 1]].lits, ch.vars[k])]
           S == {m \in Nat : \E f : Eq(f, m)}
<1>1. 0 \in S
  <2> DEFINE f == [k \in 0 .. 0 |-> log[ch.ids[1]].lits]
  <2>1. Eq(f, 0)
    OBVIOUS
  <2>2. QED
    BY <2>1
<1>2. ASSUME NEW m \in Nat, m \in S PROVE m + 1 \in S
  <2>1. PICK f : Eq(f, m)
    BY <1>2
  <2> DEFINE g == [k \in 0 .. m + 1 |-> IF k <= m THEN f[k] ELSE Resolvent(f[m], log[ch.ids[(m + 1) + 1]].lits, ch.vars[(m + 1)])]
  <2>2. ASSUME NEW k \in 0 .. m + 1
        PROVE  g[k] = IF k = 0 THEN log[ch.ids[1]].lits ELSE Resolvent(g[k - 1], log[ch.ids[k + 1]].lits, ch.vars[k])
    <3>1. CASE k <= m
      <4>1. g[k] = f[k] /\ (k # 0 => g[k - 1] = f[k - 1])
        BY <3>1
      <4>2. f[k] = IF k = 0 THEN log[ch.ids[1]].lits ELSE Resolvent(f[k - 1], log[ch.ids[k + 1]].lits, ch.vars[k])
        BY <2>1, <3>1
      <4> HIDE DEF g
      <4>3. QED
        BY <4>1, <4>2, Zenon
    <3>2. CASE k = m + 1
      <4>1. k - 1 = m /\ m \in 0 .. m + 1 /\ m <= m /\ ~(k <= m) /\ k # 0
        BY <3>2
      <4>2. g[k - 1] = f[m]
        BY <4>1
      <4>3. g[k] = Resolvent(f[m], log[ch.ids[(m + 1) + 1]].lits, ch.vars[(m + 1)])
        BY <4>1
      <4>4. QED
        BY <3>2, <4>1, <4>2, <4>3
    <3>3. QED
      BY <3>1, <3>2
  <2>3. Eq(g, m + 1)
    <3>1. g = [k \in 0 .. m + 1 |-> g[k]]
      OBVIOUS
    <3> HIDE DEF g
    <3>2. QED
      BY <2>2, <3>1, Zenon
  <2> HIDE DEF g, Eq
  <2>4. \E h : Eq(h, m + 1)
    BY <2>3
  <2>5. QED
    BY <2>4
<1>3. n \in S
  <2> HIDE DEF S
  <2>1. QED
    BY <1>1, <1>2, AllNumbers
<1>4. Eq(Resolvents(log, ch), n)
  <2>1. \E f : Eq(f, n)
    BY <1>3
  <2>2. QED
    BY <2>1, Zenon DEF Resolvents
<1> DEFINE R == Resolvents(log, ch)
<1>5. \A k \in 0 .. n : R[k] = IF k = 0 THEN log[ch.ids[1]].lits ELSE Resolvent(R[k - 1], log[ch.ids[k + 1]].lits, ch.vars[k])
  <2> HIDE DEF R, n
  <2>1. Eq(R, n)
    BY <1>4 DEF R
  <2>2. QED
    BY <2>1, Zenon
<1>6. 0 \in 0 .. n /\ \A k \in 1 .. n : k \in 0 .. n /\ k # 0
  OBVIOUS
<1> HIDE DEF R, n
<1>7. R[0] = log[ch.ids[1]].lits /\ \A k \in 1 .. n : R[k] = Resolvent(R[k - 1], log[ch.ids[k + 1]].lits, ch.vars[k])
  BY <1>5, <1>6, Zenon
<1>8. QED
  BY <1>7 DEF R, n

-----------------------------------------------------------------------------
(***************************************************************************)
(* What the single steps change.                                           *)
(***************************************************************************)

\* An assignment.
Enqueued(s, t, p, from) ==
    /\ Shaped(t) /\ t.ok = s.ok /\ t.lits = s.lits /\ t.clauses = s.clauses
    /\ t.learnts = s.learnts /\ t.unitId = s.unitId /\ t.order = s.order /\ t.watches = s.watches
    /\ t.trailLim = s.trailLim /\ t.rootLevel = s.rootLevel /\ t.qhead = s.qhead
    /\ t.simpAssigns = s.simpAssigns /\ t.model = s.model /\ t.conflict = s.conflict
    /\ t.conflictId = s.conflictId /\ t.conflicts = s.conflicts /\ t.log = s.log
    /\ t.gone = s.gone
    /\ t.assigns = [s.assigns EXCEPT ![Var(p)] = IF Sign(p) = 1 THEN False ELSE True]
    /\ t.level = [s.level EXCEPT ![Var(p)] = DecisionLevel(s)]
    /\ t.trailPos = [s.trailPos EXCEPT ![Var(p)] = NAssigns(s)]
    /\ t.reason = [s.reason EXCEPT ![Var(p)] = from]
    /\ t.trail = Append(s.trail, p)

\* What enqueue of an unassigned literal changes.
LEMMA EnqueueIs ==
  ASSUME NEW s, NEW p, NEW from, Shaped(s), Value(s, p) = Undef, NEW t, t = Enqueue(s, p, from)
  PROVE  Enqueued(s, t, p, from)
BY SMT DEF Shaped, Fields, Enqueue, Enqueued

\* A new variable.
Widened(s, t, v) ==
    /\ Shaped(t) /\ t.ok = s.ok /\ t.lits = s.lits /\ t.clauses = s.clauses
    /\ t.learnts = s.learnts /\ t.trail = s.trail /\ t.trailLim = s.trailLim
    /\ t.rootLevel = s.rootLevel /\ t.qhead = s.qhead /\ t.simpAssigns = s.simpAssigns
    /\ t.model = s.model /\ t.conflict = s.conflict /\ t.conflictId = s.conflictId
    /\ t.conflicts = s.conflicts /\ t.log = s.log /\ t.gone = s.gone
    /\ t.watches = With(With(s.watches, PosLit(v), <<>>), Neg(PosLit(v)), <<>>)
    /\ t.assigns = With(s.assigns, v, Undef)
    /\ t.reason = With(s.reason, v, NoClause)
    /\ t.level = With(s.level, v, -1)
    /\ t.trailPos = With(s.trailPos, v, -1)
    /\ t.unitId = With(s.unitId, v, NoClause)
    /\ t.order = s.order \cup {v}

\* What newVar changes.
LEMMA NewVarIs ==
  ASSUME NEW s, NEW v, Shaped(s), v = Cardinality(Vars(s)), NEW t, t = NewVar(s)
  PROVE  Widened(s, t, v)
BY SMT DEF Shaped, Fields, NewVar, Widened

\* A new level.
LEMMA LevelIs ==
  ASSUME NEW s, Shaped(s), NEW t, t = [s EXCEPT !.trailLim = Append(@, NAssigns(s))]
  PROVE  /\ Shaped(t) /\ t.ok = s.ok /\ t.lits = s.lits /\ t.clauses = s.clauses
         /\ t.learnts = s.learnts /\ t.unitId = s.unitId /\ t.order = s.order
         /\ t.watches = s.watches /\ t.assigns = s.assigns /\ t.trail = s.trail
         /\ t.reason = s.reason /\ t.level = s.level /\ t.trailPos = s.trailPos
         /\ t.rootLevel = s.rootLevel /\ t.qhead = s.qhead /\ t.simpAssigns = s.simpAssigns
         /\ t.model = s.model /\ t.conflict = s.conflict /\ t.conflictId = s.conflictId
         /\ t.conflicts = s.conflicts /\ t.log = s.log /\ t.gone = s.gone
         /\ t.trailLim = Append(s.trailLim, NAssigns(s))
BY SMT DEF Shaped, Fields

\* A return to a lower level.
LEMMA UndoIs ==
  ASSUME NEW s, NEW level, NEW keep, NEW undone, Shaped(s), NEW t, t = Undo(s, level, keep, undone)
  PROVE  /\ Shaped(t) /\ t.ok = s.ok /\ t.lits = s.lits /\ t.clauses = s.clauses
         /\ t.learnts = s.learnts /\ t.unitId = s.unitId /\ t.watches = s.watches
         /\ t.level = s.level /\ t.trailPos = s.trailPos /\ t.rootLevel = s.rootLevel
         /\ t.simpAssigns = s.simpAssigns /\ t.model = s.model /\ t.conflict = s.conflict
         /\ t.conflictId = s.conflictId /\ t.conflicts = s.conflicts /\ t.log = s.log
         /\ t.gone = s.gone
         /\ t.assigns = Reassigned(s.assigns, undone, Undef)
         /\ t.reason = Reassigned(s.reason, undone, NoClause)
         /\ t.order = s.order \cup undone
         /\ t.trail = Shrunk(s.trail, keep)
         /\ t.trailLim = Shrunk(s.trailLim, level)
         /\ t.qhead = keep
BY SMT DEF Shaped, Fields, Undo

\* A clause comes into the store.
Attached(s, t, c, ls, learnt) ==
    /\ Shaped(t) /\ t.ok = s.ok /\ t.unitId = s.unitId /\ t.order = s.order
    /\ t.assigns = s.assigns /\ t.trail = s.trail /\ t.trailLim = s.trailLim
    /\ t.reason = s.reason /\ t.level = s.level /\ t.trailPos = s.trailPos
    /\ t.rootLevel = s.rootLevel /\ t.qhead = s.qhead /\ t.simpAssigns = s.simpAssigns
    /\ t.model = s.model /\ t.conflict = s.conflict /\ t.conflictId = s.conflictId
    /\ t.conflicts = s.conflicts /\ t.log = s.log /\ t.gone = s.gone
    /\ t.lits = With(s.lits, c, ls)
    /\ t.watches = AddWatches(s.watches, {Neg(ls[1]), Neg(ls[2])}, c)
    /\ t.learnts = IF learnt THEN s.learnts \cup {c} ELSE s.learnts
    /\ t.clauses = IF learnt THEN s.clauses ELSE s.clauses \cup {c}

\* What attaching a clause changes.
LEMMA AttachIs ==
  ASSUME NEW s, NEW c, NEW ls, NEW learnt \in BOOLEAN, Shaped(s), NEW t, t = Attach(s, c, ls, learnt)
  PROVE  Attached(s, t, c, ls, learnt)
BY SMT DEF Shaped, Fields, Attach, Attached

\* A list loses a clause.
Unlisted(s, t, p, c) ==
    /\ Shaped(t) /\ t.ok = s.ok /\ t.lits = s.lits /\ t.clauses = s.clauses
    /\ t.learnts = s.learnts /\ t.unitId = s.unitId /\ t.order = s.order /\ t.assigns = s.assigns
    /\ t.trail = s.trail /\ t.trailLim = s.trailLim /\ t.reason = s.reason /\ t.level = s.level
    /\ t.trailPos = s.trailPos /\ t.rootLevel = s.rootLevel /\ t.qhead = s.qhead
    /\ t.simpAssigns = s.simpAssigns /\ t.model = s.model /\ t.conflict = s.conflict
    /\ t.conflictId = s.conflictId /\ t.conflicts = s.conflicts /\ t.log = s.log
    /\ t.gone = s.gone
    /\ t.watches = [s.watches EXCEPT ![p] = Without(@, c)]

\* What removeWatch changes in a list that has members.
LEMMA RemoveWatchFields ==
  ASSUME NEW s, NEW p, NEW c, Shaped(s), s.watches[p] # <<>>, NEW t, t = RemoveWatch(s, p, c)
  PROVE  Unlisted(s, t, p, c)
BY SMT DEF Shaped, Fields, RemoveWatch, Unlisted

\* A clause leaves the store.
Forgotten(s, t, c) ==
    /\ Shaped(t) /\ t.ok = s.ok /\ t.unitId = s.unitId /\ t.order = s.order
    /\ t.watches = s.watches /\ t.assigns = s.assigns /\ t.trail = s.trail
    /\ t.trailLim = s.trailLim /\ t.reason = s.reason /\ t.level = s.level
    /\ t.trailPos = s.trailPos /\ t.rootLevel = s.rootLevel /\ t.qhead = s.qhead
    /\ t.simpAssigns = s.simpAssigns /\ t.model = s.model /\ t.conflict = s.conflict
    /\ t.conflictId = s.conflictId /\ t.conflicts = s.conflicts /\ t.log = s.log
    /\ t.lits = Restrict(s.lits, DOMAIN s.lits \ {c})
    /\ t.clauses = s.clauses \ {c}
    /\ t.learnts = s.learnts \ {c}
    /\ t.gone = s.gone \cup {c}

\* What freeing a clause changes.
LEMMA ForgetIs ==
  ASSUME NEW s, NEW c, Shaped(s), NEW t, t = Forget(s, c)
  PROVE  Forgotten(s, t, c)
BY SMT DEF Shaped, Fields, Forget, Forgotten

\* A clause gets another watch.
Moved(s, t, c, ls, k) ==
    /\ Shaped(t) /\ t.ok = s.ok /\ t.clauses = s.clauses /\ t.learnts = s.learnts
    /\ t.unitId = s.unitId /\ t.order = s.order /\ t.assigns = s.assigns /\ t.trail = s.trail
    /\ t.trailLim = s.trailLim /\ t.reason = s.reason /\ t.level = s.level
    /\ t.trailPos = s.trailPos /\ t.rootLevel = s.rootLevel /\ t.qhead = s.qhead
    /\ t.simpAssigns = s.simpAssigns /\ t.model = s.model /\ t.conflict = s.conflict
    /\ t.conflictId = s.conflictId /\ t.conflicts = s.conflicts /\ t.log = s.log
    /\ t.gone = s.gone
    /\ t.lits = [s.lits EXCEPT ![c] = Swap(ls, 2, k)]
    /\ t.watches = [s.watches EXCEPT ![Neg(ls[k])] = Append(@, c)]

\* What moving the second watch changes.
LEMMA MoveWatchIs ==
  ASSUME NEW s, NEW c, NEW ls, NEW k, Shaped(s), NEW t, t = MoveWatch(s, c, ls, k)
  PROVE  Moved(s, t, c, ls, k)
BY SMT DEF Shaped, Fields, MoveWatch, Moved

\* The lists of settled variables are cleared.
Cleared(s, t, settled) ==
    /\ Shaped(t) /\ t.ok = s.ok /\ t.lits = s.lits /\ t.clauses = s.clauses
    /\ t.learnts = s.learnts /\ t.unitId = s.unitId /\ t.order = s.order /\ t.assigns = s.assigns
    /\ t.trail = s.trail /\ t.trailLim = s.trailLim /\ t.reason = s.reason /\ t.level = s.level
    /\ t.trailPos = s.trailPos /\ t.rootLevel = s.rootLevel /\ t.qhead = s.qhead
    /\ t.simpAssigns = s.simpAssigns /\ t.model = s.model /\ t.conflict = s.conflict
    /\ t.conflictId = s.conflictId /\ t.conflicts = s.conflicts /\ t.log = s.log
    /\ t.gone = s.gone
    /\ t.watches = [p \in DOMAIN s.watches |-> IF Var(p) \in settled THEN <<>> ELSE s.watches[p]]

\* What clearing the lists of settled variables changes.
LEMMA ClearListsIs ==
  ASSUME NEW s, NEW settled, Shaped(s), NEW t, t = ClearLists(s, settled)
  PROVE  Cleared(s, t, settled)
BY SMT DEF Shaped, Fields, ClearLists, Cleared

\* The end of a chain.
Chained(s, t, ch) ==
    /\ Shaped(t) /\ t.ok = s.ok /\ t.lits = s.lits /\ t.clauses = s.clauses
    /\ t.learnts = s.learnts /\ t.unitId = s.unitId /\ t.order = s.order /\ t.watches = s.watches
    /\ t.assigns = s.assigns /\ t.trail = s.trail /\ t.trailLim = s.trailLim
    /\ t.reason = s.reason /\ t.level = s.level /\ t.trailPos = s.trailPos
    /\ t.rootLevel = s.rootLevel /\ t.qhead = s.qhead /\ t.simpAssigns = s.simpAssigns
    /\ t.model = s.model /\ t.conflict = s.conflict /\ t.conflictId = s.conflictId
    /\ t.conflicts = s.conflicts /\ t.gone = s.gone
    /\ t.log = IF ch.vars = <<>> THEN s.log
            ELSE Append(s.log, [root |-> FALSE, lits |-> Derived(s, ch), ids |-> ch.ids, vars |-> ch.vars])

\* What ending a chain changes.
LEMMA EndChainIs ==
  ASSUME NEW s, NEW ch, Shaped(s), NEW t, t = EndChain(s, ch)
  PROVE  Chained(s, t, ch)
BY SMT DEF Shaped, Fields, EndChain, Chained

\* A root of the proof.
Rooted(s, t, C, none) ==
    /\ Shaped(t) /\ t.ok = s.ok /\ t.lits = s.lits /\ t.clauses = s.clauses
    /\ t.learnts = s.learnts /\ t.unitId = s.unitId /\ t.order = s.order /\ t.watches = s.watches
    /\ t.assigns = s.assigns /\ t.trail = s.trail /\ t.trailLim = s.trailLim
    /\ t.reason = s.reason /\ t.level = s.level /\ t.trailPos = s.trailPos
    /\ t.rootLevel = s.rootLevel /\ t.qhead = s.qhead /\ t.simpAssigns = s.simpAssigns
    /\ t.model = s.model /\ t.conflict = s.conflict /\ t.conflictId = s.conflictId
    /\ t.conflicts = s.conflicts /\ t.gone = s.gone
    /\ t.log = Append(s.log, [root |-> TRUE, lits |-> C, ids |-> none, vars |-> none])

\* What logging a root changes.
LEMMA AddRootIs ==
  ASSUME NEW s, NEW C, NEW none, Shaped(s), none = <<>>, NEW t, t = AddRoot(s, C)
  PROVE  Rooted(s, t, C, none)
BY SMT DEF Shaped, Fields, AddRoot, Rooted

-----------------------------------------------------------------------------
(***************************************************************************)
(* What follows from the parts of the invariant.                           *)
(***************************************************************************)

\* The types, field by field.
LEMMA Types ==
  ASSUME NEW s, Coherent(s)
  PROVE  /\ Shaped(s) /\ Vars(s) \subseteq Nat /\ IsFiniteSet(Vars(s)) /\ LitsOf(s) \subseteq Nat
         /\ s.assigns \in [Vars(s) -> {True, False, Undef}] /\ s.reason \in [Vars(s) -> Nat]
         /\ s.level \in [Vars(s) -> Int] /\ s.trailPos \in [Vars(s) -> Int]
         /\ s.trail \in Seq(LitsOf(s)) /\ NAssigns(s) \in Nat /\ DOMAIN s.trail = 1 .. NAssigns(s)
         /\ s.trailLim \in Seq(Nat) /\ DecisionLevel(s) \in Nat
         /\ s.qhead \in Nat /\ s.rootLevel \in Nat /\ s.simpAssigns \in Nat
         /\ s.log \in Seq(Range(s.log)) /\ LastId(s) \in Nat
         /\ \A p \in LitsOf(s) : /\ Var(p) \in Vars(s) /\ p \in Nat /\ Neg(p) \in LitsOf(s)
                                 /\ Var(Neg(p)) = Var(p) /\ Neg(Neg(p)) = p /\ Neg(p) # p
<1>1. Typed(s)
  BY DEF Coherent
<1>2. /\ LitsOf(s) \subseteq Nat
      /\ \A p \in LitsOf(s) : Var(p) \in Vars(s) /\ p \in Nat /\ Neg(p) \in LitsOf(s)
  BY NegIn DEF LitsOf
<1>3. \A p \in LitsOf(s) : Var(Neg(p)) = Var(p) /\ Neg(Neg(p)) = p /\ Neg(p) # p
  BY <1>2, Literal
<1>4. /\ NAssigns(s) \in Nat /\ DOMAIN s.trail = 1 .. NAssigns(s) /\ DecisionLevel(s) \in Nat
      /\ LastId(s) \in Nat
  BY <1>1 DEF Typed, NAssigns, DecisionLevel, LastId
<1>5. QED
  BY <1>1, <1>2, <1>3, <1>4 DEF Typed

\* Where the levels begin.
LEMMA Starts ==
  ASSUME NEW s, Coherent(s)
  PROVE  /\ LevelStart(s) \in Nat /\ LevelStart(s) <= s.qhead /\ s.qhead <= NAssigns(s)
         /\ s.simpAssigns <= NAssigns(s)
         /\ \A i \in 1 .. DecisionLevel(s) : s.trailLim[i] \in Nat /\ s.trailLim[i] <= LevelStart(s)
         /\ \A i \in 1 .. DecisionLevel(s) : \A j \in 1 .. i : s.trailLim[j] <= s.trailLim[i]
         /\ \A i \in 1 .. DecisionLevel(s) : s.simpAssigns <= s.trailLim[i]
<1> USE DEF Coherent, Trailed, Simplified
<1>1. /\ s.trailLim \in Seq(Nat) /\ DecisionLevel(s) \in Nat /\ s.qhead \in Nat /\ NAssigns(s) \in Nat
      /\ s.simpAssigns \in Nat
  BY Types
<1>2. \A i \in 1 .. DecisionLevel(s) : s.trailLim[i] \in Nat
  BY <1>1 DEF DecisionLevel
<1>3. QED
  BY <1>1, <1>2 DEF LevelStart

\* A literal with a value is on the trail, and nothing else is at its place.
LEMMA OnTrail ==
  ASSUME NEW s, Coherent(s), NEW p \in LitsOf(s), Value(s, p) # Undef
  PROVE  /\ At(s, p) \in 0 .. NAssigns(s) - 1 /\ At(s, p) \in Nat
         /\ s.trail[At(s, p) + 1] \in LitsOf(s) /\ Var(s.trail[At(s, p) + 1]) = Var(p)
         /\ s.assigns[Var(p)] # Undef /\ s.level[Var(p)] \in 0 .. DecisionLevel(s)
<1>1. Var(p) \in Vars(s) /\ s.assigns[Var(p)] # Undef
  BY Types, Values
<1>2. s.trailPos[Var(p)] \in 0 .. NAssigns(s) - 1 /\ Var(s.trail[s.trailPos[Var(p)] + 1]) = Var(p)
  BY <1>1 DEF Coherent, Trailed
<1>3. s.level[Var(p)] \in 0 .. DecisionLevel(s)
  BY <1>1 DEF Coherent, Levelled, LevelFits
<1>4. NAssigns(s) \in Nat /\ s.trail \in Seq(LitsOf(s)) /\ DOMAIN s.trail = 1 .. NAssigns(s)
  BY Types
<1>5. s.trailPos[Var(p)] + 1 \in 1 .. NAssigns(s)
  BY <1>2, <1>4
<1>6. s.trail[s.trailPos[Var(p)] + 1] \in LitsOf(s)
  BY <1>4, <1>5
<1>7. QED
  BY <1>1, <1>2, <1>3, <1>4, <1>6 DEF At

\* A place of the trail is the place of one variable.
LEMMA SamePlace ==
  ASSUME NEW s, Coherent(s), NEW p \in LitsOf(s), NEW q \in LitsOf(s),
         Value(s, p) # Undef, Value(s, q) # Undef, At(s, p) = At(s, q)
  PROVE  Var(p) = Var(q)
BY OnTrail

\* Above the root what was assigned since the last level began is of that level.
LEMMA OfLastLevel ==
  ASSUME NEW s, Coherent(s), NEW v \in Vars(s), s.assigns[v] # Undef,
         DecisionLevel(s) > s.rootLevel, s.trailPos[v] >= LevelStart(s)
  PROVE  s.level[v] = DecisionLevel(s)
<1>1. LevelFits(s, v)
  BY DEF Coherent, Levelled
<1>2. DecisionLevel(s) \in Nat /\ s.rootLevel \in Nat /\ s.level[v] \in Int /\ s.trailPos[v] \in Int
  BY Types
<1>3. LevelStart(s) = s.trailLim[DecisionLevel(s)] /\ DecisionLevel(s) \in 1 .. DecisionLevel(s)
  BY <1>2 DEF LevelStart
<1>4. s.trailLim[DecisionLevel(s)] \in Nat
  BY <1>3, Starts
<1>5. QED
  BY <1>1, <1>2, <1>3, <1>4 DEF LevelFits

\* What a lower level decided is before what a higher one did.
LEMMA BelowLevel ==
  ASSUME NEW s, Coherent(s), NEW v \in Vars(s), s.assigns[v] # Undef,
         NEW k \in 1 .. DecisionLevel(s), s.level[v] < k, s.level[v] >= 1
  PROVE  s.trailPos[v] < s.trailLim[k]
<1>1. LevelFits(s, v)
  BY DEF Coherent, Levelled
<1>2. QED
  BY <1>1, Types DEF LevelFits

\* A variable of level k or above was assigned after level k began.
LEMMA FromLevel ==
  ASSUME NEW s, Coherent(s), NEW v \in Vars(s), s.assigns[v] # Undef,
         NEW k \in 1 .. DecisionLevel(s), s.level[v] >= k
  PROVE  s.trailPos[v] >= s.trailLim[k]
<1>1. LevelFits(s, v)
  BY DEF Coherent, Levelled
<1>2. DecisionLevel(s) \in Nat /\ s.trailPos[v] \in Int
  BY Types
<1>3. s.level[v] \in 1 .. DecisionLevel(s) /\ s.trailLim[s.level[v]] <= s.trailPos[v]
  BY <1>1, <1>2 DEF LevelFits
<1>4. k \in 1 .. s.level[v]
  BY <1>2, <1>3
<1>5. s.trailLim[k] <= s.trailLim[s.level[v]] /\ s.trailLim[k] \in Nat /\ s.trailLim[s.level[v]] \in Nat
  BY <1>3, <1>4, Starts
<1>6. QED
  BY <1>2, <1>3, <1>5

\* The literals of a clause of the store.
LEMMA LitsOfClause ==
  ASSUME NEW s, Coherent(s), NEW c \in DOMAIN s.lits
  PROVE  /\ c \in Nat /\ c # NoClause /\ c \in 1 .. LastId(s)
         /\ s.lits[c] \in Seq(LitsOf(s)) /\ Len(s.lits[c]) \in Nat /\ Len(s.lits[c]) >= 2
         /\ DOMAIN s.lits[c] = 1 .. Len(s.lits[c])
         /\ \A i \in 1 .. Len(s.lits[c]) : s.lits[c][i] \in LitsOf(s)
         /\ s.lits[c][1] \in LitsOf(s) /\ s.lits[c][2] \in LitsOf(s)
         /\ \A i, j \in 1 .. Len(s.lits[c]) : i # j => Var(s.lits[c][i]) # Var(s.lits[c][j])
         /\ Var(s.lits[c][1]) # Var(s.lits[c][2])
<1>1. IsClause(s, s.lits[c]) /\ c \in 1 .. LastId(s)
  BY DEF Coherent, Stored
<1>2. s.lits[c] \in Seq(LitsOf(s)) /\ Len(s.lits[c]) >= 2
  BY <1>1 DEF IsClause
<1>3. /\ Len(s.lits[c]) \in Nat /\ DOMAIN s.lits[c] = 1 .. Len(s.lits[c])
      /\ \A i \in 1 .. Len(s.lits[c]) : s.lits[c][i] \in LitsOf(s)
  BY <1>2
<1>4. \A i, j \in 1 .. Len(s.lits[c]) : i # j => Var(s.lits[c][i]) # Var(s.lits[c][j])
  BY <1>1, <1>3 DEF IsClause
<1>5. 1 \in 1 .. Len(s.lits[c]) /\ 2 \in 1 .. Len(s.lits[c])
  BY <1>2, <1>3
<1>6. Var(s.lits[c][1]) # Var(s.lits[c][2])
  BY <1>4, <1>5
<1>7. c \in Nat /\ c # NoClause
  BY <1>1, Types DEF NoClause
<1>8. QED
  BY <1>1, <1>2, <1>3, <1>4, <1>5, <1>6, <1>7

\* A reason is a clause of the store.
LEMMA ReasonIs ==
  ASSUME NEW s, Coherent(s), NEW v \in Vars(s), s.reason[v] # NoClause
  PROVE  s.reason[v] \in DOMAIN s.lits /\ Implies(s, s.lits[s.reason[v]], v)
BY DEF Coherent, Reasoned

\* A clause is the reason of the variable of its first literal or of none.
LEMMA ReasonFirst ==
  ASSUME NEW s, Coherent(s), NEW c \in DOMAIN s.lits, NEW v \in Vars(s), s.reason[v] = c
  PROVE  Var(s.lits[c][1]) = v /\ Locked(s, c) /\ Value(s, s.lits[c][1]) = True
BY ReasonIs, LitsOfClause DEF Implies, Locked

\* A locked clause implies its first literal.
LEMMA LockedIs ==
  ASSUME NEW s, Coherent(s), NEW c \in DOMAIN s.lits, Locked(s, c)
  PROVE  Implies(s, s.lits[c], Var(s.lits[c][1]))
BY ReasonIs, LitsOfClause, Types DEF Locked

-----------------------------------------------------------------------------
(***************************************************************************)
(* Steps that leave the trail alone.                                       *)
(***************************************************************************)
SameTrail(s, t) ==
    /\ t.assigns = s.assigns /\ t.trail = s.trail /\ t.trailLim = s.trailLim /\ t.level = s.level
    /\ t.trailPos = s.trailPos /\ t.reason = s.reason /\ t.rootLevel = s.rootLevel
    /\ t.simpAssigns = s.simpAssigns

\* What depends on the trail only is the same on the same trail.
LEMMA SameTrailIs ==
  ASSUME NEW s, NEW t, SameTrail(s, t)
  PROVE  /\ Vars(t) = Vars(s) /\ LitsOf(t) = LitsOf(s) /\ NAssigns(t) = NAssigns(s)
         /\ DecisionLevel(t) = DecisionLevel(s) /\ LevelStart(t) = LevelStart(s)
         /\ Unassigned(t) = Unassigned(s)
         /\ \A p : Value(t, p) = Value(s, p) /\ (IsFalse(t, p) <=> IsFalse(s, p)) /\ At(t, p) = At(s, p)
         /\ \A p, q : Guards(t, p, q) <=> Guards(s, p, q)
         /\ \A v : Settled(t, v) <=> Settled(s, v)
         /\ \A ls, v : Implies(t, ls, v) <=> Implies(s, ls, v)
<1> USE DEF SameTrail
<1>1. /\ Vars(t) = Vars(s) /\ NAssigns(t) = NAssigns(s) /\ DecisionLevel(t) = DecisionLevel(s)
  BY DEF Vars, NAssigns, DecisionLevel
<1>2. LitsOf(t) = LitsOf(s) /\ LevelStart(t) = LevelStart(s) /\ Unassigned(t) = Unassigned(s)
  BY <1>1 DEF LitsOf, LevelStart, Unassigned
<1>3. \A p : Value(t, p) = Value(s, p) /\ At(t, p) = At(s, p)
  BY DEF Value, At
<1>4. \A p : IsFalse(t, p) <=> IsFalse(s, p)
  BY <1>3 DEF IsFalse
<1>5. \A p, q : Guards(t, p, q) <=> Guards(s, p, q)
  BY <1>1, <1>3 DEF Guards, Outlives
<1>6. \A v : Settled(t, v) <=> Settled(s, v)
  BY DEF Settled
<1>7. \A ls, v : Implies(t, ls, v) <=> Implies(s, ls, v)
  BY <1>3, <1>4 DEF Implies
<1>8. QED
  BY <1>1, <1>2, <1>3, <1>4, <1>5, <1>6, <1>7

\* The store is the same too, and the queue is where it was or further on.
Notes(s, t) ==
    /\ SameTrail(s, t) /\ t.lits = s.lits /\ t.clauses = s.clauses /\ t.learnts = s.learnts
    /\ t.qhead = s.qhead \/ t.qhead \in s.qhead .. NAssigns(s)
    /\ Shaped(t) /\ t.ok \in BOOLEAN /\ t.unitId \in [Vars(s) -> Nat]
    /\ t.log \in Seq(Range(t.log)) /\ LastId(t) >= LastId(s)

\* Logging and noting disturb no part of the invariant.
LEMMA NotesKeep ==
  ASSUME NEW s, NEW t, Notes(s, t)
  PROVE  /\ Coherent(s) => Coherent(t)
         /\ \A R : Covers(s, R) => Covers(t, R)
         /\ \A w : Lists(s, w) => Lists(t, w)
         /\ Sound(s) /\ t.watches = s.watches /\ Unassigned(s) \subseteq t.order => Sound(t)
         /\ \A c, h, late : Awake(s, c, h, late) => Awake(t, c, h, late)
         /\ \A h, late : Watching(s, h, late) => Watching(t, h, late)
         /\ \A c : InConflict(s, c) => InConflict(t, c)
<1>1. SameTrail(s, t)
  BY DEF Notes
<1>2. ASSUME Coherent(s) PROVE Coherent(t)
  <2>1. Typed(t)
    BY <1>1, <1>2, SameTrailIs DEF Coherent, Typed, Notes, SameTrail
  <2>2. Stored(t)
    <3>1. \A ls : IsClause(s, ls) => IsClause(t, ls)
      BY <1>1, SameTrailIs DEF IsClause
    <3>2. LastId(s) \in Nat /\ LastId(t) \in Nat
      BY <1>2, <2>1 DEF Coherent, Typed, LastId
    <3>3. QED
      BY <1>2, <3>1, <3>2 DEF Coherent, Stored, Notes
  <2>3. Trailed(t)
    <3>1. s.qhead <= t.qhead /\ t.qhead <= NAssigns(s) /\ t.qhead \in Nat /\ s.qhead \in Nat
      BY <1>2 DEF Coherent, Typed, Trailed, Notes, NAssigns
    <3>2. \A i \in 1 .. DecisionLevel(s) : t.trailLim[i] \in Nat /\ t.trailLim[i] <= t.qhead
      <4>1. \A i \in 1 .. DecisionLevel(s) : s.trailLim[i] \in Nat /\ s.trailLim[i] <= s.qhead
        BY <1>2 DEF Coherent, Typed, Trailed, DecisionLevel
      <4>2. QED
        BY <1>1, <3>1, <4>1 DEF SameTrail
    <3>3. QED
      BY <1>1, <1>2, <3>1, <3>2, SameTrailIs DEF Coherent, Trailed, SameTrail
  <2>4. Levelled(t)
    <3>1. \A v : LevelFits(s, v) => LevelFits(t, v)
      BY <1>1, SameTrailIs DEF LevelFits, SameTrail
    <3>2. QED
      BY <1>1, <1>2, <3>1, SameTrailIs DEF Coherent, Levelled, SameTrail
  <2>5. Reasoned(t)
    BY <1>1, <1>2, SameTrailIs DEF Coherent, Reasoned, SameTrail, Notes
  <2>6. Simplified(t)
    <3>1. \A c : Fixed(s, c) <=> Fixed(t, c)
      BY <1>1, SameTrailIs DEF Fixed, Locked, SameTrail, Notes
    <3>2. QED
      BY <1>1, <1>2, <3>1, SameTrailIs DEF Coherent, Simplified, SameTrail, Notes
  <2>7. QED
    BY <2>1, <2>2, <2>3, <2>4, <2>5, <2>6 DEF Coherent
<1>3. ASSUME NEW R, Covers(s, R) PROVE Covers(t, R)
  <2>1. \A c : Fixed(s, c) <=> Fixed(t, c)
    BY <1>1, SameTrailIs DEF Fixed, Locked, SameTrail, Notes
  <2>2. QED
    BY <1>1, <1>3, <2>1, SameTrailIs DEF Covers, Notes
<1>4. \A w : Lists(s, w) => Lists(t, w)
  BY <1>1, SameTrailIs DEF Lists
<1>5. Sound(s) /\ t.watches = s.watches /\ Unassigned(s) \subseteq t.order => Sound(t)
  BY <1>1, <1>2, <1>3, <1>4, SameTrailIs DEF Sound, Listed, Notes
<1>6. \A c, h, late : Awake(s, c, h, late) => Awake(t, c, h, late)
  BY <1>1, SameTrailIs DEF Awake, Notes
<1>7. \A h, late : Watching(s, h, late) => Watching(t, h, late)
  BY <1>6 DEF Watching, Notes
<1>8. \A c : InConflict(s, c) => InConflict(t, c)
  BY <1>1, <1>7, SameTrailIs DEF InConflict, Notes
<1>9. QED
  BY <1>2, <1>3, <1>4, <1>5, <1>6, <1>7, <1>8

-----------------------------------------------------------------------------
(***************************************************************************)
(* An assignment: p becomes true at level lev, implied by clause from.     *)
(***************************************************************************)
Assigns(s, t, p, from, lev) ==
    /\ t.assigns = [s.assigns EXCEPT ![Var(p)] = IF Sign(p) = 1 THEN False ELSE True]
    /\ t.level = [s.level EXCEPT ![Var(p)] = lev]
    /\ t.trailPos = [s.trailPos EXCEPT ![Var(p)] = NAssigns(s)]
    /\ t.reason = [s.reason EXCEPT ![Var(p)] = from]
    /\ t.trail = Append(s.trail, p)
    /\ t.trailLim = s.trailLim /\ t.rootLevel = s.rootLevel /\ t.simpAssigns = s.simpAssigns
    /\ t.lits = s.lits /\ t.clauses = s.clauses /\ t.learnts = s.learnts /\ t.qhead = s.qhead
    /\ Shaped(t) /\ t.ok \in BOOLEAN /\ t.unitId \in [Vars(s) -> Nat]
    /\ t.log \in Seq(Range(t.log)) /\ LastId(t) >= LastId(s)

\* What an assignment changes of the values.
LEMMA AssignsIs ==
  ASSUME NEW s, Coherent(s), NEW p \in LitsOf(s), Value(s, p) = Undef, NEW from \in Nat, NEW lev \in Nat,
         NEW t, Assigns(s, t, p, from, lev)
  PROVE  /\ Vars(t) = Vars(s) /\ LitsOf(t) = LitsOf(s) /\ NAssigns(t) = NAssigns(s) + 1
         /\ DecisionLevel(t) = DecisionLevel(s) /\ LevelStart(t) = LevelStart(s)
         /\ Value(t, p) = True /\ At(t, p) = NAssigns(s)
         /\ \A i \in 1 .. NAssigns(s) : t.trail[i] = s.trail[i]
         /\ t.trail[NAssigns(s) + 1] = p /\ t.trail \in Seq(LitsOf(s))
         /\ s.assigns[Var(p)] = Undef /\ t.assigns[Var(p)] # Undef
         /\ t.level[Var(p)] = lev /\ t.reason[Var(p)] = from /\ t.trailPos[Var(p)] = NAssigns(s)
         /\ \A v \in Vars(s) : v # Var(p) =>
              /\ t.assigns[v] = s.assigns[v] /\ t.level[v] = s.level[v]
              /\ t.trailPos[v] = s.trailPos[v] /\ t.reason[v] = s.reason[v]
         /\ \A q \in LitsOf(s) : Var(q) # Var(p) =>
              Value(t, q) = Value(s, q) /\ (IsFalse(t, q) <=> IsFalse(s, q)) /\ At(t, q) = At(s, q)
         /\ \A q \in LitsOf(s) : Value(s, q) # Undef => Var(q) # Var(p)
         /\ t.assigns \in [Vars(s) -> {True, False, Undef}] /\ t.reason \in [Vars(s) -> Nat]
         /\ t.level \in [Vars(s) -> Int] /\ t.trailPos \in [Vars(s) -> Int]
<1>1. /\ Var(p) \in Vars(s) /\ s.assigns \in [Vars(s) -> {True, False, Undef}] /\ Sign(p) \in {0, 1}
      /\ s.reason \in [Vars(s) -> Nat] /\ s.level \in [Vars(s) -> Int] /\ s.trailPos \in [Vars(s) -> Int]
      /\ s.trail \in Seq(LitsOf(s)) /\ NAssigns(s) \in Nat
  BY Types, Literal
<1>2. s.assigns[Var(p)] = Undef
  BY Values, Types
<1>3. /\ t.assigns[Var(p)] = (IF Sign(p) = 1 THEN False ELSE True)
      /\ t.level[Var(p)] = lev /\ t.reason[Var(p)] = from /\ t.trailPos[Var(p)] = NAssigns(s)
      /\ \A v \in Vars(s) : v # Var(p) =>
           /\ t.assigns[v] = s.assigns[v] /\ t.level[v] = s.level[v]
           /\ t.trailPos[v] = s.trailPos[v] /\ t.reason[v] = s.reason[v]
      /\ t.assigns \in [Vars(s) -> {True, False, Undef}] /\ t.reason \in [Vars(s) -> Nat]
      /\ t.level \in [Vars(s) -> Int] /\ t.trailPos \in [Vars(s) -> Int]
  <2> DEFINE x == Var(p)
             e == IF Sign(p) = 1 THEN False ELSE True
             n == NAssigns(s)
  <2>1. t.assigns = [s.assigns EXCEPT ![x] = e]
    BY DEF Assigns
  <2>2. t.level = [s.level EXCEPT ![x] = lev]
    BY DEF Assigns
  <2>3. t.reason = [s.reason EXCEPT ![x] = from]
    BY DEF Assigns
  <2>4. t.trailPos = [s.trailPos EXCEPT ![x] = n]
    BY DEF Assigns
  <2>5. x \in Vars(s) /\ e \in {True, False, Undef} /\ n \in Nat
    BY <1>1
  <2> HIDE DEF x, e, n
  <2>6. /\ t.assigns \in [Vars(s) -> {True, False, Undef}] /\ t.assigns[x] = e
        /\ \A v \in Vars(s) : v # x => t.assigns[v] = s.assigns[v]
    BY <1>1, <2>1, <2>5
  <2>7. /\ t.level \in [Vars(s) -> Int] /\ t.level[x] = lev
        /\ \A v \in Vars(s) : v # x => t.level[v] = s.level[v]
    BY <1>1, <2>2, <2>5
  <2>8. /\ t.reason \in [Vars(s) -> Nat] /\ t.reason[x] = from
        /\ \A v \in Vars(s) : v # x => t.reason[v] = s.reason[v]
    BY <1>1, <2>3, <2>5
  <2>9. /\ t.trailPos \in [Vars(s) -> Int] /\ t.trailPos[x] = n
        /\ \A v \in Vars(s) : v # x => t.trailPos[v] = s.trailPos[v]
    BY <1>1, <2>4, <2>5
  <2>10. QED
    BY <2>6, <2>7, <2>8, <2>9 DEF x, e, n
<1>4. /\ NAssigns(t) = NAssigns(s) + 1 /\ t.trail[NAssigns(s) + 1] = p /\ t.trail \in Seq(LitsOf(s))
      /\ \A i \in 1 .. NAssigns(s) : t.trail[i] = s.trail[i]
  BY <1>1 DEF Assigns, NAssigns
<1>5. Vars(t) = Vars(s) /\ LitsOf(t) = LitsOf(s)
  BY <1>1, <1>3 DEF Vars, LitsOf
<1>6. DecisionLevel(t) = DecisionLevel(s) /\ LevelStart(t) = LevelStart(s)
  BY DEF Assigns, DecisionLevel, LevelStart
<1>7. Value(t, p) = True /\ At(t, p) = NAssigns(s) /\ t.assigns[Var(p)] # Undef
  <2>1. At(t, p) = NAssigns(s)
    BY <1>3 DEF At
  <2>2. CASE Sign(p) = 0
    BY <1>3, <2>1, <2>2 DEF Value, True, False, Undef
  <2>3. CASE Sign(p) = 1
    <3>1. t.assigns[Var(p)] = False /\ Var(Neg(p)) = Var(p) /\ Sign(Neg(p)) = 0
      BY <1>3, <2>3, Literal, Types
    <3>2. IsFalse(t, Neg(p))
      BY <3>1 DEF IsFalse, Value
    <3>3. Vars(t) = Vars(s) /\ Vars(s) \subseteq Nat
      BY <1>3, Types DEF Vars
    <3>4. Value(t, p) = True /\ False # Undef
      BY <1>3, <1>5, <3>2, <3>3, Values
    <3>5. QED
      BY <2>1, <3>1, <3>4
  <2>4. QED
    BY <1>1, <2>2, <2>3
<1>8. ASSUME NEW q \in LitsOf(s)
      PROVE  /\ Var(q) # Var(p) =>
                  Value(t, q) = Value(s, q) /\ (IsFalse(t, q) <=> IsFalse(s, q)) /\ At(t, q) = At(s, q)
             /\ Value(s, q) # Undef => Var(q) # Var(p)
  <2>1. Var(q) \in Vars(s)
    BY Types
  <2>2. Var(q) # Var(p) => Value(t, q) = Value(s, q) /\ At(t, q) = At(s, q)
    BY <1>3, <2>1 DEF Value, At
  <2>3. s.assigns[Var(q)] = Undef => Value(s, q) = Undef
    BY Types, Values
  <2>4. QED
    BY <1>2, <2>2, <2>3 DEF IsFalse
<1>9. QED
  BY <1>2, <1>3, <1>4, <1>5, <1>6, <1>7, <1>8

\* An assignment that is at the root or a decision, or is implied by a clause
\* of the store, leaves everything in order.
Justified(s, p, from, lev) ==
    /\ p \in LitsOf(s) /\ Value(s, p) = Undef /\ from \in Nat
    /\ lev \in {0, DecisionLevel(s)} /\ (lev = 0 => DecisionLevel(s) <= s.rootLevel)
    /\ from = NoClause => lev = 0 \/ NAssigns(s) = s.trailLim[lev]
    /\ from # NoClause =>
         /\ from \in DOMAIN s.lits /\ s.lits[from][1] = p
         /\ \A i \in 2 .. Len(s.lits[from]) : IsFalse(s, s.lits[from][i])
         /\ lev > s.rootLevel => \E i \in 2 .. Len(s.lits[from]) : s.level[Var(s.lits[from][i])] = lev

\* A justified assignment keeps the invariant and whatever was awake.
LEMMA AssignsKeeps ==
  ASSUME NEW s, Coherent(s), NEW p, NEW from, NEW lev, Justified(s, p, from, lev),
         NEW t, Assigns(s, t, p, from, lev)
  PROVE  /\ Coherent(t)
         /\ \A R : Covers(s, R) => Covers(t, R)
         /\ \A w : Lists(s, w) => Lists(t, w)
         /\ \A c \in DOMAIN s.lits : \A h \in 0 .. NAssigns(s) : \A late :
              Awake(s, c, h, late) => Awake(t, c, h, late)
<1> SUFFICES ASSUME p \in LitsOf(s), Value(s, p) = Undef, from \in Nat,
                    lev \in {0, DecisionLevel(s)}, lev = 0 => DecisionLevel(s) <= s.rootLevel,
                    from = NoClause => lev = 0 \/ NAssigns(s) = s.trailLim[lev],
                    from # NoClause =>
                        /\ from \in DOMAIN s.lits /\ s.lits[from][1] = p
                        /\ \A i \in 2 .. Len(s.lits[from]) : IsFalse(s, s.lits[from][i])
                        /\ lev > s.rootLevel =>
                             \E i \in 2 .. Len(s.lits[from]) : s.level[Var(s.lits[from][i])] = lev
             PROVE  /\ Coherent(t)
                    /\ \A R : Covers(s, R) => Covers(t, R)
                    /\ \A w : Lists(s, w) => Lists(t, w)
                    /\ \A c \in DOMAIN s.lits : \A h \in 0 .. NAssigns(s) : \A late :
                         Awake(s, c, h, late) => Awake(t, c, h, late)
  BY DEF Justified
<1>1. Var(p) \in Vars(s) /\ DecisionLevel(s) \in Nat /\ lev \in Nat /\ NAssigns(s) \in Nat
  BY Types
<1>2. /\ Vars(t) = Vars(s) /\ LitsOf(t) = LitsOf(s) /\ NAssigns(t) = NAssigns(s) + 1
      /\ DecisionLevel(t) = DecisionLevel(s)
      /\ Value(t, p) = True /\ At(t, p) = NAssigns(s)
      /\ \A i \in 1 .. NAssigns(s) : t.trail[i] = s.trail[i]
      /\ t.trail[NAssigns(s) + 1] = p /\ t.trail \in Seq(LitsOf(s))
      /\ s.assigns[Var(p)] = Undef /\ t.assigns[Var(p)] # Undef
      /\ t.level[Var(p)] = lev /\ t.reason[Var(p)] = from /\ t.trailPos[Var(p)] = NAssigns(s)
      /\ t.assigns \in [Vars(s) -> {True, False, Undef}] /\ t.reason \in [Vars(s) -> Nat]
      /\ t.level \in [Vars(s) -> Int] /\ t.trailPos \in [Vars(s) -> Int]
  BY <1>1, AssignsIs
<1>3. \A v \in Vars(s) : v # Var(p) =>
        /\ t.assigns[v] = s.assigns[v] /\ t.level[v] = s.level[v]
        /\ t.trailPos[v] = s.trailPos[v] /\ t.reason[v] = s.reason[v]
  BY <1>1, AssignsIs
<1>4. \A q \in LitsOf(s) :
        /\ Var(q) # Var(p) =>
             Value(t, q) = Value(s, q) /\ (IsFalse(t, q) <=> IsFalse(s, q)) /\ At(t, q) = At(s, q)
        /\ Value(s, q) # Undef => Var(q) # Var(p)
  BY <1>1, AssignsIs
<1>5. /\ t.trailLim = s.trailLim /\ t.rootLevel = s.rootLevel /\ t.simpAssigns = s.simpAssigns
      /\ t.lits = s.lits /\ t.clauses = s.clauses /\ t.learnts = s.learnts /\ t.qhead = s.qhead
      /\ Shaped(t) /\ t.ok \in BOOLEAN /\ t.unitId \in [Vars(s) -> Nat]
      /\ t.log \in Seq(Range(t.log)) /\ LastId(t) >= LastId(s)
  BY DEF Assigns
<1>6. /\ s.qhead \in Nat /\ s.qhead <= NAssigns(s) /\ s.simpAssigns \in Nat /\ s.simpAssigns <= NAssigns(s)
      /\ \A i \in 1 .. DecisionLevel(s) : s.trailLim[i] \in Nat /\ s.trailLim[i] <= NAssigns(s)
  <2>1. s.qhead \in Nat /\ s.simpAssigns \in Nat
    BY Types
  <2>2. /\ LevelStart(s) \in Nat /\ LevelStart(s) <= s.qhead /\ s.qhead <= NAssigns(s)
        /\ s.simpAssigns <= NAssigns(s)
        /\ \A i \in 1 .. DecisionLevel(s) : s.trailLim[i] \in Nat /\ s.trailLim[i] <= LevelStart(s)
    BY Starts
  <2>3. QED
    BY <1>1, <2>1, <2>2
<1>7. \A q \in LitsOf(s) : Value(s, q) # Undef => At(s, q) \in Nat /\ At(s, q) < NAssigns(s)
  BY OnTrail, Types
<1>8. \A v \in Vars(s) : s.assigns[v] # Undef =>
        v # Var(p) /\ s.trailPos[v] \in Nat /\ s.trailPos[v] < NAssigns(s)
  BY <1>1, <1>2 DEF Coherent, Trailed
<1>9. ASSUME NEW v \in Vars(s) PROVE Settled(t, v) <=> Settled(s, v)
  <2>1. t.simpAssigns = s.simpAssigns
    BY <1>5
  <2>2. CASE v = Var(p)
    <3>1. ~Settled(s, v)
      BY <1>2, <2>2 DEF Settled
    <3>2. t.trailPos[v] = NAssigns(s) /\ s.simpAssigns \in Nat /\ s.simpAssigns <= NAssigns(s)
      BY <1>2, <1>6, <2>2
    <3>3. ~(NAssigns(s) < s.simpAssigns)
      BY <1>1, <3>2
    <3>4. QED
      BY <2>1, <3>1, <3>2, <3>3 DEF Settled
  <2>3. CASE v # Var(p)
    <3>1. t.assigns[v] = s.assigns[v] /\ t.trailPos[v] = s.trailPos[v]
      BY <1>3, <2>3
    <3>2. QED
      BY <2>1, <3>1 DEF Settled
  <2>4. QED
    BY <2>2, <2>3
<1>10. \A c \in DOMAIN s.lits : \A i \in DOMAIN s.lits[c] : s.lits[c][i] \in LitsOf(s)
  BY LitsOfClause
<1>11. \A c \in DOMAIN s.lits : s.lits[c][1] \in LitsOf(s) /\ s.lits[c][2] \in LitsOf(s)
  BY LitsOfClause
<1>12. \A c \in DOMAIN s.lits : Fixed(t, c) <=> Fixed(s, c)
  <2>1. TAKE c \in DOMAIN s.lits
  <2>2. Var(s.lits[c][1]) \in Vars(s)
    BY <1>11, Types
  <2>3. Settled(s, Var(s.lits[c][1])) => Var(s.lits[c][1]) # Var(p)
    BY <1>2 DEF Settled
  <2>4. QED
    BY <1>3, <1>5, <1>9, <2>2, <2>3 DEF Fixed, Locked
<1>13. Typed(t)
  BY <1>2, <1>5, Types DEF Typed, Coherent
<1>14. Stored(t)
  <2>1. \A ls : IsClause(s, ls) => IsClause(t, ls)
    BY <1>2 DEF IsClause
  <2>2. LastId(s) \in Nat /\ LastId(t) \in Nat
    BY <1>13, Types DEF Typed, LastId
  <2>3. QED
    BY <1>5, <2>1, <2>2 DEF Coherent, Stored
<1>15. Trailed(t)
  <2>1. ASSUME NEW i \in 1 .. NAssigns(t) PROVE Value(t, t.trail[i]) = True /\ At(t, t.trail[i]) = i - 1
    <3>1. CASE i = NAssigns(s) + 1
      BY <1>1, <1>2, <3>1
    <3>2. CASE i \in 1 .. NAssigns(s)
      <4>1. Value(s, s.trail[i]) = True /\ At(s, s.trail[i]) = i - 1
        BY <3>2 DEF Coherent, Trailed
      <4>2. s.trail[i] \in LitsOf(s)
        BY <3>2, Types
      <4>3. QED
        BY <1>2, <1>4, <3>2, <4>1, <4>2 DEF True, Undef
    <3>3. QED
      BY <1>1, <1>2, <3>1, <3>2
  <2>2. ASSUME NEW v \in Vars(t), t.assigns[v] # Undef
        PROVE  t.trailPos[v] \in 0 .. NAssigns(t) - 1 /\ Var(t.trail[t.trailPos[v] + 1]) = v
    <3>1. CASE v = Var(p)
      BY <1>1, <1>2, <3>1
    <3>2. CASE v # Var(p)
      <4>1. s.trailPos[v] \in 0 .. NAssigns(s) - 1 /\ Var(s.trail[s.trailPos[v] + 1]) = v
        BY <1>2, <1>3, <2>2, <3>2 DEF Coherent, Trailed
      <4> DEFINE n == NAssigns(s)
                 x == s.trailPos[v]
      <4>2. n \in Nat /\ x \in 0 .. n - 1
        BY <1>1, <4>1
      <4>3. x \in 0 .. (n + 1) - 1 /\ x + 1 \in 1 .. n
        BY <4>2
      <4>4. t.trailPos[v] = x /\ t.trail[x + 1] = s.trail[x + 1]
        BY <1>2, <1>3, <3>2, <4>3
      <4>5. QED
        BY <1>2, <4>1, <4>3, <4>4
    <3>3. QED
      BY <3>1, <3>2
  <2>3. \A i \in 1 .. DecisionLevel(t) :
          t.trailLim[i] <= t.qhead /\ \A j \in 1 .. i : t.trailLim[j] <= t.trailLim[i]
    BY <1>2, <1>5 DEF Coherent, Trailed
  <2>4. t.qhead <= NAssigns(t)
    BY <1>1, <1>2, <1>5, <1>6
  <2>5. QED
    BY <2>1, <2>2, <2>3, <2>4 DEF Trailed
<1>16. Levelled(t)
  <2>1. SUFFICES ASSUME NEW v \in Vars(s), t.assigns[v] # Undef PROVE LevelFits(t, v)
    BY <1>2 DEF Levelled
  <2>2. CASE v = Var(p)
    <3>1. lev > 0 => s.trailLim[lev] <= NAssigns(s)
      BY <1>1, <1>6
    <3>2. \A k \in 1 .. DecisionLevel(s) : k > lev => lev = 0 /\ k <= s.rootLevel
      BY <1>1, Types
    <3>3. QED
      BY <1>1, <1>2, <1>5, <2>2, <3>1, <3>2 DEF LevelFits
  <2>3. CASE v # Var(p)
    <3>1. LevelFits(s, v)
      BY <1>3, <2>1, <2>3 DEF Coherent, Levelled
    <3>2. QED
      BY <1>2, <1>3, <1>5, <2>3, <3>1 DEF LevelFits
  <2>4. QED
    BY <2>2, <2>3
<1>17. Reasoned(t)
  <2>1. ASSUME NEW v \in Vars(s), t.reason[v] # NoClause
        PROVE  t.reason[v] \in DOMAIN t.lits /\ Implies(t, t.lits[t.reason[v]], v)
    <3>1. CASE v = Var(p)
      <4>1. from # NoClause /\ from \in DOMAIN s.lits /\ s.lits[from][1] = p
        BY <1>2, <2>1, <3>1
      <4>2. ASSUME NEW i \in 2 .. Len(s.lits[from])
            PROVE  /\ Var(s.lits[from][i]) # Var(p) /\ Var(s.lits[from][i]) \in Vars(s)
                   /\ IsFalse(t, s.lits[from][i]) /\ At(t, s.lits[from][i]) < NAssigns(s)
        <5>1. Len(s.lits[from]) \in Nat /\ i \in 1 .. Len(s.lits[from]) /\ s.lits[from][i] \in LitsOf(s)
          BY <4>1, LitsOfClause
        <5>2. IsFalse(s, s.lits[from][i])
          BY <4>1
        <5>3. Value(s, s.lits[from][i]) # Undef
          BY <5>2 DEF IsFalse, False, Undef
        <5>4. QED
          BY <1>4, <1>7, <5>1, <5>2, <5>3, Types
      <4>3. lev > s.rootLevel => \E i \in 2 .. Len(s.lits[from]) : t.level[Var(s.lits[from][i])] = lev
        BY <1>3, <4>1, <4>2
      <4>4. Implies(t, s.lits[from], Var(p))
        BY <1>2, <1>5, <4>1, <4>2, <4>3 DEF Implies
      <4>5. QED
        BY <1>2, <1>5, <3>1, <4>1, <4>4
    <3>2. CASE v # Var(p)
      <4>1. s.reason[v] # NoClause /\ t.reason[v] = s.reason[v]
        BY <1>3, <2>1, <3>2
      <4> DEFINE ls == s.lits[s.reason[v]]
      <4>2. s.reason[v] \in DOMAIN s.lits /\ Implies(s, ls, v)
        BY <4>1, ReasonIs
      <4>3. /\ ls[1] \in LitsOf(s) /\ Len(ls) \in Nat
            /\ \A i \in 2 .. Len(ls) : ls[i] \in LitsOf(s) /\ Var(ls[i]) \in Vars(s)
        <5>1. /\ Len(ls) \in Nat /\ ls[1] \in LitsOf(s)
              /\ \A i \in 1 .. Len(ls) : ls[i] \in LitsOf(s)
          BY <4>2, LitsOfClause
        <5> HIDE DEF ls
        <5>2. ASSUME NEW i \in 2 .. Len(ls) PROVE ls[i] \in LitsOf(s) /\ Var(ls[i]) \in Vars(s)
          <6>1. ls[i] \in LitsOf(s)
            BY <5>1
          <6>2. QED
            BY <6>1, Types
        <5>3. QED
          BY <5>1, <5>2
      <4> HIDE DEF ls
      <4>4. Var(ls[1]) = v /\ Value(s, ls[1]) = True /\ Value(t, ls[1]) = True
        BY <1>4, <3>2, <4>2, <4>3 DEF Implies
      <4>5. ASSUME NEW i \in 2 .. Len(ls)
            PROVE  /\ IsFalse(t, ls[i]) /\ At(t, ls[i]) < s.trailPos[v] /\ Var(ls[i]) # Var(p)
        <5>1. IsFalse(s, ls[i]) /\ At(s, ls[i]) < s.trailPos[v]
          BY <4>2 DEF Implies
        <5>2. Value(s, ls[i]) # Undef
          BY <5>1 DEF IsFalse, False, Undef
        <5>3. QED
          BY <1>4, <4>3, <5>1, <5>2
      <4>6. s.level[v] > s.rootLevel => \E i \in 2 .. Len(ls) : t.level[Var(ls[i])] = s.level[v]
        BY <1>3, <4>2, <4>3, <4>5 DEF Implies
      <4>7. Implies(t, ls, v)
        BY <1>3, <1>5, <3>2, <4>4, <4>5, <4>6 DEF Implies
      <4>8. QED
        BY <1>5, <4>1, <4>2, <4>7 DEF ls
    <3>3. QED
      BY <3>1, <3>2
  <2>2. ASSUME NEW v \in Vars(s), t.assigns[v] # Undef, t.reason[v] = NoClause
        PROVE  t.level[v] = 0 \/ t.trailPos[v] = t.trailLim[t.level[v]]
    <3>1. CASE v = Var(p)
      BY <1>2, <1>5, <2>2, <3>1
    <3>2. CASE v # Var(p)
      BY <1>3, <1>5, <2>2, <3>2 DEF Coherent, Reasoned
    <3>3. QED
      BY <3>1, <3>2
  <2>3. QED
    BY <1>2, <2>1, <2>2 DEF Reasoned
<1>18. Simplified(t)
  <2>1. \A c \in DOMAIN s.lits : \A i \in DOMAIN s.lits[c] :
          Value(t, s.lits[c][i]) = True /\ Settled(t, Var(s.lits[c][i])) => Fixed(t, c)
    <3>1. TAKE c \in DOMAIN s.lits
    <3>11. TAKE i \in DOMAIN s.lits[c]
    <3>2. s.lits[c][i] \in LitsOf(s) /\ Var(s.lits[c][i]) \in Vars(s)
      BY <1>10, Types
    <3>3. Settled(s, Var(s.lits[c][i])) => Var(s.lits[c][i]) # Var(p)
      BY <1>2 DEF Settled
    <3>4. QED
      BY <1>4, <1>9, <1>12, <3>2, <3>3 DEF Coherent, Simplified
  <2>2. /\ t.simpAssigns <= NAssigns(t)
        /\ DecisionLevel(t) >= 1 => t.simpAssigns <= t.trailLim[1]
    BY <1>1, <1>2, <1>5, <1>6 DEF Coherent, Simplified
  <2>3. QED
    BY <1>5, <2>1, <2>2 DEF Simplified
<1>19. Coherent(t)
  BY <1>13, <1>14, <1>15, <1>16, <1>17, <1>18 DEF Coherent
<1>20. \A R : Covers(s, R) => Covers(t, R)
  BY <1>2, <1>5, <1>9, <1>12, Types DEF Covers
<1>21. \A w : Lists(s, w) => Lists(t, w)
  BY <1>2 DEF Lists
<1>22. ASSUME NEW c \in DOMAIN s.lits, NEW h \in 0 .. NAssigns(s), NEW late, Awake(s, c, h, late)
       PROVE  Awake(t, c, h, late)
  <2>1. SUFFICES ASSUME NEW i \in {1, 2}, IsFalse(t, s.lits[c][i]), At(t, s.lits[c][i]) < h,
                        c \in late => At(t, s.lits[c][i]) # h - 1
                 PROVE  Guards(t, s.lits[c][3 - i], s.lits[c][i])
    BY <1>5 DEF Awake
  <2> DEFINE q == s.lits[c][i]
             o == s.lits[c][3 - i]
  <2>2. q \in LitsOf(s) /\ o \in LitsOf(s)
    <3>1. i = 1 \/ i = 2
      OBVIOUS
    <3>2. QED
      BY <1>11, <3>1
  <2>3. IsFalse(t, q) /\ At(t, q) < h /\ (c \in late => At(t, q) # h - 1)
    BY <2>1
  <2>4. Awake(s, c, h, late) => (IsFalse(s, q) /\ At(s, q) < h /\ (c \in late => At(s, q) # h - 1) => Guards(s, o, q))
    BY DEF Awake
  <2> HIDE DEF q, o
  <2>5. Var(q) # Var(p)
    <3>1. SUFFICES ASSUME Var(q) = Var(p) PROVE FALSE
      OBVIOUS
    <3>2. At(t, q) = NAssigns(s)
      BY <1>2, <3>1 DEF At
    <3>3. QED
      BY <1>1, <2>3, <3>2
  <2>6. IsFalse(s, q) /\ At(s, q) = At(t, q)
    BY <1>4, <2>2, <2>3, <2>5
  <2>7. Guards(s, o, q)
    BY <1>22, <2>3, <2>4, <2>6
  <2>8. Value(s, o) = True /\ Value(t, o) = True /\ At(t, o) = At(s, o)
    BY <1>4, <2>2, <2>7 DEF Guards, True, Undef
  <2>9. Guards(t, o, q)
    BY <1>2, <1>5, <2>6, <2>7, <2>8 DEF Guards, Outlives
  <2>10. QED
    BY <2>9 DEF q, o
<1>23. QED
  BY <1>19, <1>20, <1>21, <1>22

-----------------------------------------------------------------------------
(***************************************************************************)
(* A new level begins when everything is propagated.                       *)
(***************************************************************************)
Deepens(s, t) ==
    /\ Shaped(t) /\ t.ok = s.ok /\ t.lits = s.lits /\ t.clauses = s.clauses
    /\ t.learnts = s.learnts /\ t.unitId = s.unitId /\ t.order = s.order
    /\ t.watches = s.watches /\ t.assigns = s.assigns /\ t.trail = s.trail
    /\ t.reason = s.reason /\ t.level = s.level /\ t.trailPos = s.trailPos
    /\ t.rootLevel = s.rootLevel /\ t.qhead = s.qhead /\ t.simpAssigns = s.simpAssigns
    /\ t.log = s.log /\ t.trailLim = Append(s.trailLim, NAssigns(s))

\* A new level on a propagated trail keeps the invariant.
LEMMA LevelKeeps ==
  ASSUME NEW s, Coherent(s), s.qhead = NAssigns(s), NEW t, Deepens(s, t)
  PROVE  /\ Coherent(t) /\ DecisionLevel(t) = DecisionLevel(s) + 1 /\ NAssigns(t) = NAssigns(s)
         /\ LevelStart(t) = NAssigns(s) /\ t.trailLim[DecisionLevel(t)] = NAssigns(s)
         /\ LitsOf(t) = LitsOf(s) /\ \A p : Value(t, p) = Value(s, p)
         /\ t.watches = s.watches /\ t.order = s.order /\ t.rootLevel = s.rootLevel /\ t.ok = s.ok
         /\ t.qhead = s.qhead /\ Unassigned(t) = Unassigned(s) /\ t.lits = s.lits
         /\ \A R : Covers(s, R) => Covers(t, R)
         /\ \A w : Lists(s, w) => Lists(t, w)
         /\ \A h, late : Watching(s, h, late) => Watching(t, h, late)
<1>1. /\ Shaped(t) /\ t.ok = s.ok /\ t.lits = s.lits /\ t.clauses = s.clauses
      /\ t.learnts = s.learnts /\ t.unitId = s.unitId /\ t.order = s.order
      /\ t.watches = s.watches /\ t.assigns = s.assigns /\ t.trail = s.trail
      /\ t.reason = s.reason /\ t.level = s.level /\ t.trailPos = s.trailPos
      /\ t.rootLevel = s.rootLevel /\ t.qhead = s.qhead /\ t.simpAssigns = s.simpAssigns
      /\ t.log = s.log /\ t.trailLim = Append(s.trailLim, NAssigns(s))
  BY DEF Deepens
<1>2. NAssigns(s) \in Nat /\ s.trailLim \in Seq(Nat) /\ DecisionLevel(s) \in Nat /\ s.rootLevel \in Nat
  BY Types
<1>3. /\ DecisionLevel(t) = DecisionLevel(s) + 1 /\ NAssigns(t) = NAssigns(s)
      /\ t.trailLim \in Seq(Nat) /\ t.trailLim[DecisionLevel(s) + 1] = NAssigns(s)
      /\ \A k \in 1 .. DecisionLevel(s) : t.trailLim[k] = s.trailLim[k]
      /\ DecisionLevel(s) + 1 # 0 /\ DecisionLevel(s) + 1 \in Nat
  BY <1>1, <1>2 DEF DecisionLevel, NAssigns
<1>31. \A k \in 1 .. DecisionLevel(t) : k \in Nat /\ (k # DecisionLevel(s) + 1 => k \in 1 .. DecisionLevel(s))
  BY <1>2, <1>3
<1>4. LevelStart(t) = NAssigns(s)
  <2>1. DecisionLevel(t) # 0 /\ t.trailLim[DecisionLevel(t)] = NAssigns(s)
    BY <1>3
  <2>2. QED
    BY <2>1 DEF LevelStart
<1>5. Vars(t) = Vars(s) /\ LitsOf(t) = LitsOf(s) /\ Unassigned(t) = Unassigned(s)
  BY <1>1 DEF Vars, LitsOf, Unassigned
<1>6. \A p : Value(t, p) = Value(s, p) /\ (IsFalse(t, p) <=> IsFalse(s, p)) /\ At(t, p) = At(s, p)
  BY <1>1 DEF Value, IsFalse, At
<1>7. (\A v : Settled(t, v) <=> Settled(s, v)) /\ (\A c : Fixed(t, c) <=> Fixed(s, c))
  BY <1>1 DEF Settled, Fixed, Locked
<1>8. /\ \A k \in 1 .. DecisionLevel(s) : s.trailLim[k] \in Nat /\ s.trailLim[k] <= NAssigns(s)
      /\ s.simpAssigns \in Nat /\ s.simpAssigns <= NAssigns(s)
  <2>1. /\ LevelStart(s) \in Nat /\ LevelStart(s) <= s.qhead
        /\ \A i \in 1 .. DecisionLevel(s) : s.trailLim[i] \in Nat /\ s.trailLim[i] <= LevelStart(s)
        /\ s.simpAssigns <= NAssigns(s)
    BY Starts
  <2>2. QED
    BY <1>2, <2>1, Types
<1>9. Typed(t)
  BY <1>1, <1>3, <1>5, Types DEF Typed, Coherent
<1>10. Stored(t)
  <2>1. \A ls : IsClause(s, ls) => IsClause(t, ls)
    BY <1>5 DEF IsClause
  <2>2. QED
    BY <1>1, <2>1 DEF Coherent, Stored, LastId
<1>11. Trailed(t)
  <2>1. ASSUME NEW i \in 1 .. DecisionLevel(t)
        PROVE  t.trailLim[i] <= t.qhead /\ \A j \in 1 .. i : t.trailLim[j] <= t.trailLim[i]
    <3>1. CASE i = DecisionLevel(s) + 1
      <4>1. ASSUME NEW j \in 1 .. i PROVE t.trailLim[j] <= NAssigns(s)
        <5>1. CASE j = DecisionLevel(s) + 1
          <6>1. t.trailLim[j] = NAssigns(s)
            BY <1>3, <5>1, Zenon
          <6>2. QED
            BY <1>2, <6>1
        <5>2. CASE j # DecisionLevel(s) + 1
          <6>1. j \in 1 .. DecisionLevel(s)
            BY <1>2, <3>1, <5>2
          <6>2. QED
            BY <1>3, <1>8, <6>1
        <5>3. QED
          BY <5>1, <5>2
      <4>2. QED
        BY <1>1, <1>2, <1>3, <3>1, <4>1
    <3>2. CASE i \in 1 .. DecisionLevel(s)
      <4>1. \A j \in 1 .. i : j \in 1 .. DecisionLevel(s)
        BY <1>2, <3>2
      <4>2. s.trailLim[i] <= s.qhead /\ \A j \in 1 .. i : s.trailLim[j] <= s.trailLim[i]
        BY <3>2 DEF Coherent, Trailed
      <4>3. QED
        BY <1>1, <1>3, <3>2, <4>1, <4>2
    <3>3. QED
      BY <1>31, <3>1, <3>2
  <2>2. QED
    BY <1>1, <1>3, <1>5, <1>6, <2>1 DEF Coherent, Trailed
<1>12. Levelled(t)
  <2>1. SUFFICES ASSUME NEW v \in Vars(s), s.assigns[v] # Undef PROVE LevelFits(t, v)
    BY <1>1, <1>5 DEF Levelled
  <2>2. LevelFits(s, v)
    BY <2>1 DEF Coherent, Levelled
  <2>3. s.trailPos[v] \in Nat /\ s.trailPos[v] < NAssigns(s) /\ s.level[v] \in 0 .. DecisionLevel(s)
    BY <1>2, <2>1, <2>2 DEF Coherent, Trailed, LevelFits
  <2>4. t.level[v] > 0 => t.trailLim[t.level[v]] <= t.trailPos[v]
    <3>1. SUFFICES ASSUME s.level[v] > 0 PROVE t.trailLim[s.level[v]] <= s.trailPos[v]
      BY <1>1
    <3>2. s.level[v] \in 1 .. DecisionLevel(s)
      BY <1>2, <2>3, <3>1
    <3>3. QED
      BY <1>3, <2>2, <3>1, <3>2 DEF LevelFits
  <2>5. ASSUME NEW k \in 1 .. DecisionLevel(t), k > t.level[v]
        PROVE  t.trailPos[v] < t.trailLim[k] \/ (t.level[v] = 0 /\ k <= t.rootLevel)
    <3>1. CASE k = DecisionLevel(s) + 1
      BY <1>1, <1>3, <2>3, <3>1
    <3>2. CASE k # DecisionLevel(s) + 1
      <4>1. k \in 1 .. DecisionLevel(s)
        BY <1>31, <3>2
      <4>2. QED
        BY <1>1, <1>3, <2>2, <2>5, <4>1 DEF LevelFits
    <3>3. QED
      BY <3>1, <3>2
  <2>6. t.level[v] \in 0 .. DecisionLevel(t)
    BY <1>1, <1>2, <1>3, <2>3
  <2>7. QED
    BY <2>4, <2>5, <2>6 DEF LevelFits
<1>13. Reasoned(t)
  <2>1. \A ls, v : Implies(s, ls, v) => Implies(t, ls, v)
    BY <1>1, <1>6 DEF Implies
  <2>2. \A v \in Vars(t) : t.reason[v] # NoClause =>
          t.reason[v] \in DOMAIN t.lits /\ Implies(t, t.lits[t.reason[v]], v)
    BY <1>1, <1>5, <2>1 DEF Coherent, Reasoned
  <2>3. ASSUME NEW v \in Vars(t), t.assigns[v] # Undef, t.reason[v] = NoClause
        PROVE  t.level[v] = 0 \/ t.trailPos[v] = t.trailLim[t.level[v]]
    <3>1. s.level[v] = 0 \/ s.trailPos[v] = s.trailLim[s.level[v]]
      BY <1>1, <1>5, <2>3 DEF Coherent, Reasoned
    <3>2. s.level[v] \in 0 .. DecisionLevel(s)
      BY <1>1, <1>5, <2>3 DEF Coherent, Levelled, LevelFits
    <3>3. CASE s.level[v] = 0
      BY <1>1, <3>3
    <3>4. CASE s.level[v] # 0
      <4>1. s.level[v] \in 1 .. DecisionLevel(s)
        BY <1>2, <3>2, <3>4
      <4>2. QED
        BY <1>1, <1>3, <3>1, <3>4, <4>1
    <3>5. QED
      BY <3>3, <3>4
  <2>4. QED
    BY <2>2, <2>3 DEF Reasoned
<1>14. Simplified(t)
  <2>1. t.simpAssigns <= t.trailLim[1]
    <3>1. 1 = DecisionLevel(s) + 1 \/ 1 \in 1 .. DecisionLevel(s)
      BY <1>2
    <3>2. 1 \in 1 .. DecisionLevel(s) => s.simpAssigns <= s.trailLim[1]
      BY Starts
    <3>3. QED
      BY <1>1, <1>3, <1>8, <3>1, <3>2
  <2>2. \A c \in DOMAIN s.lits : \A i \in DOMAIN s.lits[c] :
          Value(s, s.lits[c][i]) = True /\ Settled(s, Var(s.lits[c][i])) => Fixed(s, c)
    BY DEF Coherent, Simplified
  <2>3. \A c \in DOMAIN t.lits : \A i \in DOMAIN t.lits[c] :
          Value(t, t.lits[c][i]) = True /\ Settled(t, Var(t.lits[c][i])) => Fixed(t, c)
    <3>1. t.lits = s.lits
      BY <1>1
    <3>2. QED
      BY <1>6, <1>7, <2>2, <3>1
  <2>4. t.simpAssigns <= NAssigns(t)
    BY <1>1, <1>3, <1>8
  <2>5. QED
    BY <2>1, <2>3, <2>4 DEF Simplified
<1>15. Coherent(t)
  BY <1>9, <1>10, <1>11, <1>12, <1>13, <1>14 DEF Coherent
<1>16. \A R : Covers(s, R) => Covers(t, R)
  BY <1>1, <1>5, <1>7 DEF Covers
<1>17. \A w : Lists(s, w) => Lists(t, w)
  BY <1>5 DEF Lists
<1>18. ASSUME NEW h, NEW late, Watching(s, h, late) PROVE Watching(t, h, late)
  <2>1. SUFFICES ASSUME NEW c \in DOMAIN s.lits PROVE Awake(t, c, h, late)
    BY <1>1 DEF Watching
  <2>2. Awake(s, c, h, late) /\ s.lits[c][1] \in LitsOf(s) /\ s.lits[c][2] \in LitsOf(s)
    BY <1>18, LitsOfClause DEF Watching
  <2>3. ASSUME NEW p \in LitsOf(s), NEW q, Guards(s, p, q) PROVE Guards(t, p, q)
    <3>1. Value(s, p) = True /\ At(s, p) \in Nat /\ At(s, p) < NAssigns(s)
      BY <2>3, OnTrail, Types DEF Guards, True, Undef
    <3>2. ASSUME NEW k \in 1 .. DecisionLevel(t), k = 1 \/ k > s.rootLevel, At(s, q) < t.trailLim[k]
          PROVE  At(s, p) < t.trailLim[k]
      <4>1. CASE k = DecisionLevel(s) + 1
        BY <1>3, <3>1, <4>1
      <4>2. CASE k # DecisionLevel(s) + 1
        <5>1. k \in 1 .. DecisionLevel(s) /\ t.trailLim[k] = s.trailLim[k]
          BY <1>3, <1>31, <4>2
        <5>2. QED
          BY <2>3, <3>2, <5>1 DEF Guards, Outlives
      <4>3. QED
        BY <4>1, <4>2
    <3>3. QED
      <4>1. t.rootLevel = s.rootLevel /\ Value(t, p) = True /\ At(t, p) = At(s, p) /\ At(t, q) = At(s, q)
        BY <1>1, <1>6, <3>1
      <4>2. Outlives(t, p, q)
        BY <3>2, <4>1 DEF Outlives
      <4>3. QED
        BY <4>1, <4>2 DEF Guards
  <2>4. \A i \in {1, 2} : s.lits[c][3 - i] \in LitsOf(s)
    BY <2>2
  <2>5. QED
    BY <1>1, <1>6, <2>2, <2>3, <2>4 DEF Awake
<1>19. QED
  BY <1>1, <1>3, <1>4, <1>5, <1>6, <1>15, <1>16, <1>17, <1>18

-----------------------------------------------------------------------------
(***************************************************************************)
(* A return to level l: to 0, or to the root or above it.                  *)
(***************************************************************************)
UndoneAbove(s, l) == {Var(s.trail[i]) : i \in s.trailLim[l + 1] + 1 .. NAssigns(s)}

Returns(s, t, l) ==
    /\ Shaped(t) /\ t.ok = s.ok /\ t.lits = s.lits /\ t.clauses = s.clauses
    /\ t.learnts = s.learnts /\ t.unitId = s.unitId /\ t.watches = s.watches
    /\ t.level = s.level /\ t.trailPos = s.trailPos /\ t.rootLevel = s.rootLevel
    /\ t.simpAssigns = s.simpAssigns /\ t.log = s.log
    /\ t.assigns = Reassigned(s.assigns, UndoneAbove(s, l), Undef)
    /\ t.reason = Reassigned(s.reason, UndoneAbove(s, l), NoClause)
    /\ t.order = s.order \cup UndoneAbove(s, l)
    /\ t.trail = Shrunk(s.trail, s.trailLim[l + 1])
    /\ t.trailLim = Shrunk(s.trailLim, l)
    /\ t.qhead = s.trailLim[l + 1]

\* What is undone is what was assigned since level l + 1 began.
LEMMA ReturnsIs ==
  ASSUME NEW s, Coherent(s), NEW l \in 0 .. DecisionLevel(s) - 1, NEW t, Returns(s, t, l),
         NEW n, n = s.trailLim[l + 1]
  PROVE  /\ n \in Nat /\ n <= NAssigns(s) /\ n <= s.qhead /\ n <= LevelStart(s) /\ s.simpAssigns <= n
         /\ Vars(t) = Vars(s) /\ LitsOf(t) = LitsOf(s) /\ NAssigns(t) = n /\ DecisionLevel(t) = l
         /\ t.trail \in Seq(LitsOf(s)) /\ t.trailLim \in Seq(Nat)
         /\ \A i \in 1 .. n : t.trail[i] = s.trail[i]
         /\ \A k \in 1 .. l : t.trailLim[k] = s.trailLim[k] /\ s.trailLim[k] \in Nat /\ s.trailLim[k] <= n
         /\ t.assigns \in [Vars(s) -> {True, False, Undef}] /\ t.reason \in [Vars(s) -> Nat]
         /\ \A v \in Vars(s) :
              IF s.assigns[v] # Undef /\ s.trailPos[v] < n
              THEN t.assigns[v] = s.assigns[v] /\ t.reason[v] = s.reason[v]
              ELSE t.assigns[v] = Undef /\ t.reason[v] = NoClause
         /\ \A q \in LitsOf(s) :
              /\ At(t, q) = At(s, q) /\ (IsFalse(t, q) => IsFalse(s, q)) /\ (Value(t, q) = True => Value(s, q) = True)
              /\ Value(t, q) # Undef => At(s, q) < n
              /\ Value(s, q) # Undef /\ At(s, q) < n => Value(t, q) = Value(s, q)
         /\ Unassigned(s) \subseteq s.order => Unassigned(t) \subseteq t.order
<1>1. DecisionLevel(s) \in Nat /\ l \in Nat /\ l + 1 \in 1 .. DecisionLevel(s) /\ NAssigns(s) \in Nat
  BY Types
<1>2. /\ n \in Nat /\ n <= LevelStart(s) /\ s.simpAssigns <= n
      /\ \A k \in 1 .. l : s.trailLim[k] \in Nat /\ s.trailLim[k] <= n
  <2>1. \A k \in 1 .. l : k \in 1 .. DecisionLevel(s) /\ k \in 1 .. l + 1
    BY <1>1
  <2>2. QED
    BY <1>1, <2>1, Starts
<1>3. n <= s.qhead /\ n <= NAssigns(s)
  <2>1. LevelStart(s) \in Nat /\ LevelStart(s) <= s.qhead /\ s.qhead <= NAssigns(s) /\ s.qhead \in Nat
    BY Starts, Types
  <2>2. QED
    BY <1>1, <1>2, <2>1
<1>4. /\ s.assigns \in [Vars(s) -> {True, False, Undef}] /\ s.reason \in [Vars(s) -> Nat]
      /\ s.trail \in Seq(LitsOf(s)) /\ s.trailLim \in Seq(Nat) /\ Vars(s) \subseteq Nat
  BY Types
<1>5. /\ t.trail = Shrunk(s.trail, n) /\ t.trailLim = Shrunk(s.trailLim, l)
      /\ t.assigns = Reassigned(s.assigns, UndoneAbove(s, l), Undef)
      /\ t.reason = Reassigned(s.reason, UndoneAbove(s, l), NoClause)
      /\ t.order = s.order \cup UndoneAbove(s, l)
      /\ t.trailPos = s.trailPos
  BY DEF Returns
<1>6. /\ t.trail \in Seq(LitsOf(s)) /\ NAssigns(t) = n /\ \A i \in 1 .. n : t.trail[i] = s.trail[i]
  <2>1. n \in 0 .. Len(s.trail)
    BY <1>1, <1>2, <1>3 DEF NAssigns
  <2>2. QED
    BY <1>4, <1>5, <2>1, Prefix DEF Shrunk, NAssigns
<1>7. /\ t.trailLim \in Seq(Nat) /\ DecisionLevel(t) = l /\ \A k \in 1 .. l : t.trailLim[k] = s.trailLim[k]
  <2>1. l \in 0 .. Len(s.trailLim)
    BY <1>1 DEF DecisionLevel
  <2>2. QED
    BY <1>4, <1>5, <2>1, Prefix DEF Shrunk, DecisionLevel
<1>8. ASSUME NEW v \in Vars(s)
      PROVE  v \in UndoneAbove(s, l) <=> s.assigns[v] # Undef /\ ~(s.trailPos[v] < n)
  <2>1. ASSUME v \in UndoneAbove(s, l) PROVE s.assigns[v] # Undef /\ ~(s.trailPos[v] < n)
    <3>1. PICK i \in n + 1 .. NAssigns(s) : v = Var(s.trail[i])
      BY <2>1 DEF UndoneAbove
    <3>2. i \in 1 .. NAssigns(s)
      BY <1>1, <1>2
    <3>3. Value(s, s.trail[i]) = True /\ At(s, s.trail[i]) = i - 1 /\ s.trail[i] \in LitsOf(s)
      BY <1>4, <3>2 DEF Coherent, Trailed, NAssigns
    <3>4. s.assigns[v] # Undef
      BY <3>1, <3>3, OnTrail DEF True, Undef
    <3>5. s.trailPos[v] = i - 1 /\ i \in Int /\ i >= n + 1
      BY <1>1, <1>2, <3>1, <3>3 DEF At
    <3>6. QED
      BY <1>2, <3>4, <3>5
  <2>2. ASSUME s.assigns[v] # Undef, ~(s.trailPos[v] < n) PROVE v \in UndoneAbove(s, l)
    <3>1. s.trailPos[v] \in 0 .. NAssigns(s) - 1 /\ Var(s.trail[s.trailPos[v] + 1]) = v
      BY <2>2 DEF Coherent, Trailed
    <3>2. s.trailPos[v] + 1 \in n + 1 .. NAssigns(s)
      BY <1>1, <1>2, <2>2, <3>1
    <3>3. QED
      BY <3>1, <3>2 DEF UndoneAbove
  <2>3. QED
    BY <2>1, <2>2
<1>9. /\ DOMAIN t.assigns = Vars(s)
      /\ \A v \in Vars(s) : t.assigns[v] = IF v \in UndoneAbove(s, l) THEN Undef ELSE s.assigns[v]
  BY <1>5 DEF Reassigned, Vars
<1>10. /\ DOMAIN t.reason = Vars(s)
       /\ \A v \in Vars(s) : t.reason[v] = IF v \in UndoneAbove(s, l) THEN NoClause ELSE s.reason[v]
  BY <1>4, <1>5 DEF Reassigned
<1>11. t.assigns \in [Vars(s) -> {True, False, Undef}] /\ t.reason \in [Vars(s) -> Nat]
  <2>1. t.assigns = [v \in Vars(s) |-> IF v \in UndoneAbove(s, l) THEN Undef ELSE s.assigns[v]]
    BY <1>5 DEF Reassigned, Vars
  <2>2. t.reason = [v \in Vars(s) |-> IF v \in UndoneAbove(s, l) THEN NoClause ELSE s.reason[v]]
    BY <1>4, <1>5 DEF Reassigned
  <2>3. NoClause \in Nat
    BY DEF NoClause
  <2>4. QED
    BY <1>4, <2>1, <2>2, <2>3
<1>12. \A v \in Vars(s) : s.assigns[v] = Undef => s.reason[v] = NoClause
  <2>1. TAKE v \in Vars(s)
  <2>2. ASSUME s.reason[v] # NoClause PROVE s.assigns[v] # Undef
    <3>1. s.reason[v] \in DOMAIN s.lits /\ Implies(s, s.lits[s.reason[v]], v)
      BY <2>2, ReasonIs
    <3>2. s.lits[s.reason[v]][1] \in LitsOf(s)
      BY <3>1, LitsOfClause
    <3>3. QED
      BY <3>1, <3>2, OnTrail DEF Implies, True, Undef
  <2>3. QED
    BY <2>2
<1>13. \A v \in Vars(s) :
         IF s.assigns[v] # Undef /\ s.trailPos[v] < n
         THEN t.assigns[v] = s.assigns[v] /\ t.reason[v] = s.reason[v]
         ELSE t.assigns[v] = Undef /\ t.reason[v] = NoClause
  BY <1>8, <1>9, <1>10, <1>12
<1>14. Vars(t) = Vars(s) /\ LitsOf(t) = LitsOf(s)
  BY <1>9 DEF Vars, LitsOf
<1>15. ASSUME NEW q \in LitsOf(s)
       PROVE  /\ At(t, q) = At(s, q) /\ (IsFalse(t, q) => IsFalse(s, q))
              /\ Value(t, q) = True => Value(s, q) = True
              /\ Value(t, q) # Undef => At(s, q) < n
              /\ Value(s, q) # Undef /\ At(s, q) < n => Value(t, q) = Value(s, q)
  <2>1. Var(q) \in Vars(s) /\ q \in LitsOf(t)
    BY <1>14, Types
  <2>2. At(t, q) = At(s, q) /\ At(s, q) = s.trailPos[Var(q)]
    BY <1>5 DEF At
  <2>3. (Value(s, q) = Undef <=> s.assigns[Var(q)] = Undef) /\ True # Undef /\ False # Undef
    BY <1>4, Values
  <2>4. Value(t, q) = Undef <=> t.assigns[Var(q)] = Undef
    BY <1>4, <1>11, <1>14, <2>1, Values
  <2>5. t.assigns[Var(q)] = s.assigns[Var(q)] => Value(t, q) = Value(s, q)
    BY DEF Value
  <2>6. CASE s.assigns[Var(q)] # Undef /\ s.trailPos[Var(q)] < n
    BY <1>13, <2>1, <2>2, <2>3, <2>5, <2>6 DEF IsFalse
  <2>7. CASE ~(s.assigns[Var(q)] # Undef /\ s.trailPos[Var(q)] < n)
    BY <1>13, <2>1, <2>2, <2>3, <2>4, <2>7 DEF IsFalse
  <2>8. QED
    BY <2>6, <2>7
<1>16. Unassigned(s) \subseteq s.order => Unassigned(t) \subseteq t.order
  BY <1>5, <1>8, <1>9, <1>14 DEF Unassigned
<1>17. QED
  BY <1>2, <1>3, <1>6, <1>7, <1>11, <1>13, <1>14, <1>15, <1>16

\* Undoing whole levels keeps the invariant, and all that is left is propagated.
LEMMA ReturnsKeeps ==
  ASSUME NEW s, Coherent(s), NEW l \in 0 .. DecisionLevel(s) - 1, l = 0 \/ l >= s.rootLevel,
         NEW t, Returns(s, t, l)
  PROVE  /\ Coherent(t)
         /\ \A R : Covers(s, R) => Covers(t, R)
         /\ \A w : Lists(s, w) => Lists(t, w)
         /\ Sound(s) => Sound(t)
         /\ Watching(s, LevelStart(s), {}) => Watching(t, t.qhead, {})
         /\ t.qhead = NAssigns(t)
<1> DEFINE n == s.trailLim[l + 1]
<1>1. /\ n \in Nat /\ n <= NAssigns(s) /\ n <= s.qhead /\ n <= LevelStart(s) /\ s.simpAssigns <= n
      /\ Vars(t) = Vars(s) /\ LitsOf(t) = LitsOf(s) /\ NAssigns(t) = n /\ DecisionLevel(t) = l
      /\ t.trail \in Seq(LitsOf(s)) /\ t.trailLim \in Seq(Nat)
      /\ \A i \in 1 .. n : t.trail[i] = s.trail[i]
      /\ \A k \in 1 .. l : t.trailLim[k] = s.trailLim[k] /\ s.trailLim[k] \in Nat /\ s.trailLim[k] <= n
      /\ t.assigns \in [Vars(s) -> {True, False, Undef}] /\ t.reason \in [Vars(s) -> Nat]
  BY ReturnsIs
<1>2. \A v \in Vars(s) :
        IF s.assigns[v] # Undef /\ s.trailPos[v] < n
        THEN t.assigns[v] = s.assigns[v] /\ t.reason[v] = s.reason[v]
        ELSE t.assigns[v] = Undef /\ t.reason[v] = NoClause
  BY ReturnsIs
<1>3. \A q \in LitsOf(s) :
        /\ At(t, q) = At(s, q) /\ (IsFalse(t, q) => IsFalse(s, q)) /\ (Value(t, q) = True => Value(s, q) = True)
        /\ Value(t, q) # Undef => At(s, q) < n
        /\ Value(s, q) # Undef /\ At(s, q) < n => Value(t, q) = Value(s, q)
  BY ReturnsIs
<1>4. Unassigned(s) \subseteq s.order => Unassigned(t) \subseteq t.order
  BY ReturnsIs
<1>5. /\ Shaped(t) /\ t.ok = s.ok /\ t.lits = s.lits /\ t.clauses = s.clauses
      /\ t.learnts = s.learnts /\ t.unitId = s.unitId /\ t.watches = s.watches
      /\ t.level = s.level /\ t.trailPos = s.trailPos /\ t.rootLevel = s.rootLevel
      /\ t.simpAssigns = s.simpAssigns /\ t.log = s.log /\ t.qhead = n
  BY DEF Returns
<1> HIDE DEF n
<1>6. DecisionLevel(s) \in Nat /\ l \in Nat /\ l < DecisionLevel(s) /\ NAssigns(s) \in Nat /\ s.simpAssigns \in Nat
  BY Types
<1>7. s.trailPos \in [Vars(s) -> Int] /\ s.level \in [Vars(s) -> Int]
  BY Types
<1>8. \A v \in Vars(s) : t.assigns[v] # Undef =>
        /\ s.assigns[v] # Undef /\ s.trailPos[v] < n /\ s.trailPos[v] \in 0 .. NAssigns(s) - 1
        /\ t.assigns[v] = s.assigns[v] /\ t.reason[v] = s.reason[v]
  BY <1>2 DEF Coherent, Trailed
<1>9. \A v \in Vars(s) : Settled(t, v) <=> Settled(s, v)
  <2>1. TAKE v \in Vars(s)
  <2>2. s.trailPos[v] < s.simpAssigns => s.trailPos[v] < n
    BY <1>1, <1>6, <1>7
  <2>3. QED
    BY <1>2, <1>5, <2>2 DEF Settled
<1>10. \A c \in DOMAIN s.lits : s.lits[c][1] \in LitsOf(s) /\ s.lits[c][2] \in LitsOf(s) /\ c # NoClause
  BY LitsOfClause
<1>11. \A c \in DOMAIN s.lits : Fixed(t, c) <=> Fixed(s, c)
  <2>1. TAKE c \in DOMAIN s.lits
  <2>2. Var(s.lits[c][1]) \in Vars(s)
    BY <1>10, Types
  <2>3. Settled(t, Var(s.lits[c][1])) => t.reason[Var(s.lits[c][1])] = s.reason[Var(s.lits[c][1])]
    BY <1>8, <2>2 DEF Settled
  <2>4. QED
    BY <1>5, <1>9, <2>2, <2>3 DEF Fixed, Locked
<1>12. Typed(t)
  BY <1>1, <1>5, Types DEF Coherent, Typed
<1>13. Stored(t)
  <2>1. \A ls : IsClause(s, ls) => IsClause(t, ls)
    BY <1>1 DEF IsClause
  <2>2. QED
    BY <1>5, <2>1 DEF Coherent, Stored, LastId
<1>14. Trailed(t)
  <2>1. ASSUME NEW i \in 1 .. n PROVE Value(t, t.trail[i]) = True /\ At(t, t.trail[i]) = i - 1
    <3>1. i \in 1 .. NAssigns(s) /\ i - 1 < n
      BY <1>1, <1>6
    <3>2. Value(s, s.trail[i]) = True /\ At(s, s.trail[i]) = i - 1
      BY <3>1 DEF Coherent, Trailed
    <3>3. s.trail[i] \in LitsOf(s)
      BY <3>1, Types
    <3>4. QED
      BY <1>1, <1>3, <3>1, <3>2, <3>3 DEF True, Undef
  <2>2. ASSUME NEW v \in Vars(s), t.assigns[v] # Undef
        PROVE  t.trailPos[v] \in 0 .. n - 1 /\ Var(t.trail[t.trailPos[v] + 1]) = v
    <3>1. s.assigns[v] # Undef /\ s.trailPos[v] < n /\ s.trailPos[v] \in 0 .. NAssigns(s) - 1
      BY <1>8, <2>2
    <3>2. Var(s.trail[s.trailPos[v] + 1]) = v
      BY <3>1 DEF Coherent, Trailed
    <3>3. s.trailPos[v] + 1 \in 1 .. n /\ s.trailPos[v] \in 0 .. n - 1
      BY <1>1, <1>6, <3>1
    <3>4. QED
      BY <1>1, <1>5, <3>2, <3>3
  <2>3. ASSUME NEW i \in 1 .. l
        PROVE  t.trailLim[i] <= n /\ \A j \in 1 .. i : t.trailLim[j] <= t.trailLim[i]
    <3>1. i \in 1 .. DecisionLevel(s) /\ \A j \in 1 .. i : j \in 1 .. l
      BY <1>6
    <3>2. \A j \in 1 .. i : s.trailLim[j] <= s.trailLim[i]
      BY <3>1, Starts
    <3>3. QED
      BY <1>1, <3>1, <3>2
  <2>4. n <= n
    BY <1>1
  <2>5. QED
    BY <1>1, <1>5, <2>1, <2>2, <2>3, <2>4 DEF Trailed
<1>15. Levelled(t)
  <2>1. SUFFICES ASSUME NEW v \in Vars(s), t.assigns[v] # Undef PROVE LevelFits(t, v)
    BY <1>1 DEF Levelled
  <2>2. s.assigns[v] # Undef /\ s.trailPos[v] < n
    BY <1>8, <2>1
  <2>3. LevelFits(s, v)
    BY <2>2 DEF Coherent, Levelled
  <2>4. s.level[v] <= l
    <3>1. SUFFICES ASSUME s.level[v] >= l + 1 PROVE FALSE
      BY <1>6, <1>7
    <3>2. l + 1 \in 1 .. DecisionLevel(s)
      BY <1>6
    <3>3. s.trailPos[v] >= n
      BY <2>2, <3>1, <3>2, FromLevel DEF n
    <3>4. QED
      BY <1>1, <1>7, <2>2, <3>3
  <2>5. s.level[v] \in 0 .. l
    BY <1>6, <2>3, <2>4 DEF LevelFits
  <2>6. s.level[v] > 0 => t.trailLim[s.level[v]] <= s.trailPos[v]
    <3>1. s.level[v] > 0 => s.level[v] \in 1 .. l
      BY <1>6, <2>5
    <3>2. QED
      BY <1>1, <2>3, <3>1 DEF LevelFits
  <2>7. ASSUME NEW k \in 1 .. l, k > s.level[v]
        PROVE  s.trailPos[v] < t.trailLim[k] \/ (s.level[v] = 0 /\ k <= s.rootLevel)
    <3>1. k \in 1 .. DecisionLevel(s)
      BY <1>6
    <3>2. QED
      BY <1>1, <2>3, <2>7, <3>1 DEF LevelFits
  <2>8. QED
    BY <1>1, <1>5, <2>5, <2>6, <2>7 DEF LevelFits
<1>16. Reasoned(t)
  <2>1. ASSUME NEW v \in Vars(s), t.reason[v] # NoClause
        PROVE  t.reason[v] \in DOMAIN t.lits /\ Implies(t, t.lits[t.reason[v]], v)
    <3>1. s.trailPos[v] < n /\ t.reason[v] = s.reason[v] /\ s.reason[v] # NoClause
      BY <1>2, <2>1
    <3> DEFINE ls == s.lits[s.reason[v]]
    <3>2. s.reason[v] \in DOMAIN s.lits /\ Implies(s, ls, v)
      BY <3>1, ReasonIs
    <3>3. /\ ls[1] \in LitsOf(s) /\ Len(ls) \in Nat /\ \A i \in 1 .. Len(ls) : ls[i] \in LitsOf(s)
      BY <3>2, LitsOfClause
    <3>4. t.lits[t.reason[v]] = ls /\ t.reason[v] \in DOMAIN t.lits
      BY <1>5, <3>1, <3>2
    <3> HIDE DEF ls
    <3>5. Var(ls[1]) = v /\ Value(s, ls[1]) = True
      BY <3>2 DEF Implies
    <3>6. Value(t, ls[1]) = True
      BY <1>3, <3>1, <3>3, <3>5 DEF At, True, Undef
    <3>7. ASSUME NEW i \in 2 .. Len(ls) PROVE IsFalse(t, ls[i]) /\ At(t, ls[i]) < s.trailPos[v]
      <4>1. IsFalse(s, ls[i]) /\ At(s, ls[i]) < s.trailPos[v]
        BY <3>2 DEF Implies
      <4>2. ls[i] \in LitsOf(s)
        BY <3>3
      <4>3. Value(s, ls[i]) # Undef
        BY <4>1 DEF IsFalse, False, Undef
      <4>4. At(s, ls[i]) \in Nat
        BY <4>2, <4>3, OnTrail
      <4>5. At(s, ls[i]) < n
        BY <1>1, <1>7, <3>1, <4>1, <4>4
      <4>6. QED
        BY <1>3, <4>1, <4>2, <4>3, <4>5 DEF IsFalse
    <3>8. Implies(t, ls, v)
      BY <1>5, <3>2, <3>5, <3>6, <3>7 DEF Implies
    <3>9. QED
      BY <3>4, <3>8
  <2>2. ASSUME NEW v \in Vars(s), t.assigns[v] # Undef, t.reason[v] = NoClause
        PROVE  t.level[v] = 0 \/ t.trailPos[v] = t.trailLim[t.level[v]]
    <3>1. s.assigns[v] # Undef /\ s.reason[v] = NoClause
      BY <1>8, <2>2
    <3>2. s.level[v] = 0 \/ s.trailPos[v] = s.trailLim[s.level[v]]
      BY <3>1 DEF Coherent, Reasoned
    <3>3. s.level[v] \in 0 .. l
      BY <1>1, <1>5, <1>15, <2>2 DEF Levelled, LevelFits
    <3>4. CASE s.level[v] = 0
      BY <1>5, <3>4
    <3>5. CASE s.level[v] # 0
      <4>1. s.level[v] \in 1 .. l
        BY <1>6, <3>3, <3>5
      <4>2. QED
        BY <1>1, <1>5, <3>2, <3>5, <4>1
    <3>6. QED
      BY <3>4, <3>5
  <2>3. QED
    BY <1>1, <2>1, <2>2 DEF Reasoned
<1>17. Simplified(t)
  <2>1. ASSUME NEW c \in DOMAIN s.lits, NEW i \in DOMAIN s.lits[c], Value(t, s.lits[c][i]) = True,
               Settled(t, Var(s.lits[c][i]))
        PROVE  Fixed(t, c)
    <3>1. s.lits[c][i] \in LitsOf(s) /\ Var(s.lits[c][i]) \in Vars(s)
      BY LitsOfClause, Types
    <3>2. Value(s, s.lits[c][i]) = True /\ Settled(s, Var(s.lits[c][i]))
      BY <1>3, <1>9, <2>1, <3>1
    <3>3. QED
      BY <1>11, <3>2 DEF Coherent, Simplified
  <2>2. t.simpAssigns <= NAssigns(t)
    BY <1>1, <1>5
  <2>3. l >= 1 => s.simpAssigns <= t.trailLim[1]
    <3>1. l >= 1 => 1 \in 1 .. l /\ 1 \in 1 .. DecisionLevel(s)
      BY <1>6
    <3>2. QED
      BY <1>1, <3>1, Starts
  <2>4. QED
    BY <1>1, <1>5, <2>1, <2>2, <2>3 DEF Simplified
<1>18. Coherent(t)
  BY <1>12, <1>13, <1>14, <1>15, <1>16, <1>17 DEF Coherent
<1>19. \A R : Covers(s, R) => Covers(t, R)
  BY <1>1, <1>5, <1>9, <1>11, Types DEF Covers
<1>20. \A w : Lists(s, w) => Lists(t, w)
  BY <1>1 DEF Lists
<1>21. Sound(s) => Sound(t)
  BY <1>4, <1>5, <1>18, <1>19, <1>20 DEF Sound, Listed
<1>22. ASSUME Watching(s, LevelStart(s), {}) PROVE Watching(t, n, {})
  <2>1. SUFFICES ASSUME NEW c \in DOMAIN s.lits PROVE Awake(t, c, n, {})
    BY <1>5 DEF Watching
  <2>2. Awake(s, c, LevelStart(s), {}) /\ s.lits[c][1] \in LitsOf(s) /\ s.lits[c][2] \in LitsOf(s)
    BY <1>10, <1>22 DEF Watching
  <2>3. ASSUME NEW p \in LitsOf(s), NEW q \in LitsOf(s), IsFalse(t, q),
               IsFalse(s, q) /\ At(s, q) < LevelStart(s) => Guards(s, p, q)
        PROVE  Guards(t, p, q)
    <3>1. IsFalse(s, q) /\ At(s, q) < n /\ At(t, q) = At(s, q)
      BY <1>3, <2>3 DEF IsFalse, False, Undef
    <3>2. At(s, q) \in Nat /\ LevelStart(s) \in Nat
      BY <3>1, OnTrail, Starts DEF IsFalse, False, Undef
    <3>3. Guards(s, p, q)
      BY <1>1, <2>3, <3>1, <3>2
    <3>4. At(s, p) < n
      <4>1. l + 1 \in 1 .. DecisionLevel(s) /\ (l + 1 = 1 \/ l + 1 > s.rootLevel)
        BY <1>6, Types
      <4>2. QED
        BY <3>1, <3>3, <4>1 DEF Guards, Outlives, n
    <3>5. Value(s, p) = True /\ Value(t, p) = True /\ At(t, p) = At(s, p)
      BY <1>3, <3>3, <3>4 DEF Guards, True, Undef
    <3>6. ASSUME NEW k \in 1 .. l, k = 1 \/ k > s.rootLevel, At(s, q) < t.trailLim[k]
          PROVE  At(s, p) < t.trailLim[k]
      <4>1. k \in 1 .. DecisionLevel(s) /\ t.trailLim[k] = s.trailLim[k]
        BY <1>1, <1>6
      <4>2. QED
        BY <3>3, <3>6, <4>1 DEF Guards, Outlives
    <3>7. DecisionLevel(t) = l /\ t.rootLevel = s.rootLevel
      BY <1>1, <1>5
    <3>8. QED
      BY <3>1, <3>5, <3>6, <3>7 DEF Guards, Outlives
  <2>4. \A i \in {1, 2} : s.lits[c][3 - i] \in LitsOf(s) /\ s.lits[c][i] \in LitsOf(s)
    BY <2>2
  <2>5. t.lits = s.lits
    BY <1>5
  <2>6. QED
    BY <2>2, <2>3, <2>4, <2>5 DEF Awake
<1>23. QED
  BY <1>1, <1>5, <1>18, <1>19, <1>20, <1>21, <1>22

\* cancelUntil keeps the invariant.
LEMMA CancelKeeps ==
  ASSUME NEW s, Sound(s), NEW l \in Nat, l = 0 \/ l >= s.rootLevel, NEW t, t = CancelUntil(s, l),
         DecisionLevel(s) > l => Watching(s, LevelStart(s), {}),
         DecisionLevel(s) <= l => (s.ok => Watching(s, s.qhead, {}))
  PROVE  /\ Sound(t) /\ (t.ok => Watching(t, t.qhead, {})) /\ t.ok = s.ok /\ t.rootLevel = s.rootLevel
         /\ DecisionLevel(t) = IF DecisionLevel(s) > l THEN l ELSE DecisionLevel(s)
         /\ LitsOf(t) = LitsOf(s)
         /\ DecisionLevel(s) > l => Returns(s, t, l)
<1>1. Coherent(s)
  BY DEF Sound
<1>2. DecisionLevel(s) \in Nat
  BY <1>1, Types
<1>3. CASE DecisionLevel(s) <= l
  <2>1. t = s
    BY <1>3, Zenon DEF CancelUntil
  <2>2. QED
    BY <1>2, <1>3, <2>1
<1>4. CASE DecisionLevel(s) > l
  <2>1. t = Undo(s, l, s.trailLim[l + 1], UndoneAbove(s, l))
    <3>1. ~(DecisionLevel(s) <= l)
      BY <1>2, <1>4
    <3>2. QED
      BY <3>1, Zenon DEF CancelUntil, UndoneAbove
  <2>2. Returns(s, t, l)
    <3>1. Shaped(s)
      BY <1>1, Types
    <3>2. QED
      BY <2>1, <3>1, UndoIs DEF Returns
  <2>3. l \in 0 .. DecisionLevel(s) - 1
    BY <1>2, <1>4
  <2>4. Sound(t) /\ Watching(t, t.qhead, {})
    BY <1>1, <1>4, <2>2, <2>3, ReturnsKeeps
  <2>5. DecisionLevel(t) = l /\ LitsOf(t) = LitsOf(s)
    BY <1>1, <2>2, <2>3, ReturnsIs
  <2>6. t.ok = s.ok /\ t.rootLevel = s.rootLevel
    BY <2>2 DEF Returns
  <2>7. QED
    BY <1>4, <2>2, <2>4, <2>5, <2>6
<1>5. QED
  BY <1>2, <1>3, <1>4

-----------------------------------------------------------------------------
(***************************************************************************)
(* A clause is written anew with its literals in another order.            *)
(***************************************************************************)
Rewrites(s, t, c, ls) ==
    /\ SameTrail(s, t) /\ t.lits = [s.lits EXCEPT ![c] = ls] /\ t.clauses = s.clauses
    /\ t.learnts = s.learnts /\ t.qhead = s.qhead
    /\ Shaped(t) /\ t.ok \in BOOLEAN /\ t.unitId \in [Vars(s) -> Nat]
    /\ t.log \in Seq(Range(t.log)) /\ LastId(t) >= LastId(s)

\* Only a clause that is no reason changes its first literal.
LEMMA RewritesKeeps ==
  ASSUME NEW s, Coherent(s), NEW c \in DOMAIN s.lits, NEW ls, IsClause(s, ls), Range(ls) = Range(s.lits[c]),
         ls = s.lits[c] \/ \A v \in Vars(s) : s.reason[v] # c,
         NEW t, Rewrites(s, t, c, ls)
  PROVE  /\ Coherent(t) /\ DOMAIN t.lits = DOMAIN s.lits /\ t.lits[c] = ls
         /\ \A e \in DOMAIN s.lits : e # c => t.lits[e] = s.lits[e] /\ (Fixed(t, e) <=> Fixed(s, e))
         /\ \A w : Lists(s, w) => Lists(t, w)
         /\ \A e \in DOMAIN s.lits : \A h, late : e # c /\ Awake(s, e, h, late) => Awake(t, e, h, late)
         /\ Fixed(s, c) <=> Fixed(t, c)
<1>1. /\ SameTrail(s, t) /\ t.lits = [s.lits EXCEPT ![c] = ls] /\ t.clauses = s.clauses
      /\ t.learnts = s.learnts /\ t.qhead = s.qhead
      /\ Shaped(t) /\ t.ok \in BOOLEAN /\ t.unitId \in [Vars(s) -> Nat]
      /\ t.log \in Seq(Range(t.log)) /\ LastId(t) >= LastId(s)
  BY DEF Rewrites
<1>2. /\ Vars(t) = Vars(s) /\ LitsOf(t) = LitsOf(s) /\ NAssigns(t) = NAssigns(s)
      /\ DecisionLevel(t) = DecisionLevel(s)
      /\ \A p : Value(t, p) = Value(s, p) /\ (IsFalse(t, p) <=> IsFalse(s, p)) /\ At(t, p) = At(s, p)
      /\ \A p, q : Guards(t, p, q) <=> Guards(s, p, q)
      /\ \A v : Settled(t, v) <=> Settled(s, v)
      /\ \A k, v : Implies(t, k, v) <=> Implies(s, k, v)
  BY <1>1, SameTrailIs
<1>3. DOMAIN t.lits = DOMAIN s.lits /\ t.lits[c] = ls /\ \A e \in DOMAIN s.lits : e # c => t.lits[e] = s.lits[e]
  BY <1>1
<1>4. t.reason = s.reason /\ t.rootLevel = s.rootLevel /\ t.simpAssigns = s.simpAssigns
  BY <1>1 DEF SameTrail
<1>5. /\ LastId(s) \in Nat /\ LastId(t) \in Nat /\ s.lits[c] \in Seq(LitsOf(s)) /\ Len(s.lits[c]) >= 2
      /\ ls \in Seq(LitsOf(s)) /\ Len(ls) >= 2
  <2>1. LastId(s) \in Nat /\ s.lits[c] \in Seq(LitsOf(s)) /\ Len(s.lits[c]) >= 2
    BY Types, LitsOfClause
  <2>2. LastId(t) \in Nat
    <3>1. t.log \in Seq(Range(t.log))
      BY <1>1
    <3>2. QED
      BY <3>1 DEF LastId
  <2>3. ls \in Seq(LitsOf(s)) /\ Len(ls) >= 2
    BY DEF IsClause
  <2>4. QED
    BY <2>1, <2>2, <2>3
<1>6. \A e \in DOMAIN s.lits : e # c => (Fixed(t, e) <=> Fixed(s, e))
  BY <1>2, <1>3, <1>4 DEF Fixed, Locked
<1>7. ASSUME ls # s.lits[c] PROVE ~Fixed(s, c) /\ ~Fixed(t, c)
  <2>1. ls[1] \in LitsOf(s) /\ s.lits[c][1] \in LitsOf(s)
    BY <1>5
  <2>2. Var(ls[1]) \in Vars(s) /\ Var(s.lits[c][1]) \in Vars(s)
    BY <2>1, Types
  <2>3. QED
    BY <1>3, <1>4, <1>7, <2>2 DEF Fixed, Locked
<1>8. Fixed(s, c) <=> Fixed(t, c)
  <2>1. CASE ls = s.lits[c]
    BY <1>2, <1>3, <1>4, <2>1 DEF Fixed, Locked
  <2>2. QED
    BY <1>7, <2>1
<1>9. Typed(t)
  BY <1>1, <1>2, Types DEF Coherent, Typed, SameTrail
<1>10. Stored(t)
  <2>1. \A k : IsClause(s, k) => IsClause(t, k)
    BY <1>2 DEF IsClause
  <2>2. t.lits = [e \in DOMAIN t.lits |-> t.lits[e]]
    BY <1>1
  <2>3. DOMAIN t.lits \subseteq 1 .. LastId(t)
    BY <1>1, <1>3, <1>5 DEF Coherent, Stored
  <2>4. \A e \in DOMAIN t.lits : IsClause(t, t.lits[e])
    BY <1>3, <2>1 DEF Coherent, Stored
  <2>5. t.clauses \cup t.learnts = DOMAIN t.lits /\ t.clauses \cap t.learnts = {}
    BY <1>1, <1>3 DEF Coherent, Stored
  <2>6. QED
    BY <2>2, <2>3, <2>4, <2>5 DEF Stored
<1>11. Trailed(t)
  BY <1>1, <1>2 DEF Coherent, Trailed, SameTrail
<1>12. Levelled(t)
  <2>1. \A v : LevelFits(s, v) => LevelFits(t, v)
    BY <1>1, <1>2 DEF LevelFits, SameTrail
  <2>2. QED
    BY <1>1, <1>2, <2>1 DEF Coherent, Levelled, SameTrail
<1>13. Reasoned(t)
  <2>1. ASSUME NEW v \in Vars(s), s.reason[v] # NoClause
        PROVE  s.reason[v] \in DOMAIN t.lits /\ Implies(t, t.lits[s.reason[v]], v)
    <3>1. s.reason[v] \in DOMAIN s.lits /\ Implies(s, s.lits[s.reason[v]], v)
      BY <2>1, ReasonIs
    <3>2. t.lits[s.reason[v]] = s.lits[s.reason[v]]
      BY <1>3, <3>1
    <3>3. QED
      BY <1>2, <1>3, <3>1, <3>2
  <2>2. QED
    BY <1>1, <1>2, <1>4, <2>1 DEF Coherent, Reasoned, SameTrail
<1>14. Simplified(t)
  <2>1. ASSUME NEW e \in DOMAIN s.lits, NEW i \in DOMAIN t.lits[e], Value(t, t.lits[e][i]) = True,
               Settled(t, Var(t.lits[e][i]))
        PROVE  Fixed(t, e)
    <3>1. Range(t.lits[e]) = Range(s.lits[e])
      BY <1>3
    <3>2. PICK j \in DOMAIN s.lits[e] : t.lits[e][i] = s.lits[e][j]
      <4>1. t.lits[e][i] \in Range(s.lits[e])
        BY <3>1 DEF Range
      <4>2. QED
        BY <4>1 DEF Range
    <3>3. Fixed(s, e)
      BY <1>2, <2>1, <3>2 DEF Coherent, Simplified
    <3>4. QED
      BY <1>6, <1>8, <3>3
  <2>2. QED
    BY <1>2, <1>3, <1>4, <2>1 DEF Coherent, Simplified, SameTrail, Rewrites
<1>15. Coherent(t)
  BY <1>9, <1>10, <1>11, <1>12, <1>13, <1>14 DEF Coherent
<1>16. \A w : Lists(s, w) => Lists(t, w)
  BY <1>2 DEF Lists
<1>17. \A e \in DOMAIN s.lits : \A h, late : e # c /\ Awake(s, e, h, late) => Awake(t, e, h, late)
  BY <1>2, <1>3 DEF Awake
<1>18. QED
  BY <1>3, <1>6, <1>8, <1>15, <1>16, <1>17

\* The exchange of two literals of a clause.
LEMMA SwapIs ==
  ASSUME NEW s, NEW ls, IsClause(s, ls), NEW i \in DOMAIN ls, NEW j \in DOMAIN ls
  PROVE  /\ IsClause(s, Swap(ls, i, j)) /\ Range(Swap(ls, i, j)) = Range(ls)
         /\ Len(Swap(ls, i, j)) = Len(ls)
         /\ Swap(ls, i, j)[i] = ls[j] /\ Swap(ls, i, j)[j] = ls[i]
         /\ \A k \in DOMAIN ls : k # i /\ k # j => Swap(ls, i, j)[k] = ls[k]
<1> DEFINE sw == Swap(ls, i, j)
<1>1. ls \in Seq(LitsOf(s)) /\ Len(ls) \in Nat /\ Len(ls) >= 2 /\ DOMAIN ls = 1 .. Len(ls)
  BY DEF IsClause
<1>2. sw \in Seq(LitsOf(s)) /\ Len(sw) = Len(ls) /\ DOMAIN sw = DOMAIN ls
  BY <1>1 DEF Swap
<1>3. sw[i] = ls[j] /\ sw[j] = ls[i] /\ \A k \in DOMAIN ls : k # i /\ k # j => sw[k] = ls[k]
  BY <1>1 DEF Swap
<1> HIDE DEF sw
<1>4. \A a, b \in DOMAIN ls : Var(ls[a]) = Var(ls[b]) => a = b
  BY DEF IsClause
<1>5. \A a, b \in DOMAIN sw : Var(sw[a]) = Var(sw[b]) => a = b
  <2>1. SUFFICES ASSUME NEW a \in DOMAIN ls, NEW b \in DOMAIN ls, Var(sw[a]) = Var(sw[b]) PROVE a = b
    BY <1>2
  <2>2. \A k \in DOMAIN ls : sw[k] = IF k = i THEN ls[j] ELSE IF k = j THEN ls[i] ELSE ls[k]
    BY <1>3
  <2>3. QED
    BY <1>4, <2>1, <2>2
<1>6. Range(sw) = Range(ls)
  <2>1. \A k \in DOMAIN ls : sw[k] \in Range(ls)
    BY <1>3 DEF Range
  <2>2. \A k \in DOMAIN ls : ls[k] \in Range(sw)
    BY <1>2, <1>3 DEF Range
  <2>3. QED
    BY <1>2, <2>1, <2>2 DEF Range
<1>7. IsClause(s, sw)
  BY <1>1, <1>2, <1>5 DEF IsClause
<1>8. QED
  BY <1>2, <1>3, <1>6, <1>7 DEF sw

-----------------------------------------------------------------------------
(***************************************************************************)
(* A clause comes into the store.                                          *)
(***************************************************************************)
Attaches(s, t, c, ls) ==
    /\ SameTrail(s, t) /\ t.lits = With(s.lits, c, ls) /\ t.qhead = s.qhead /\ t.order = s.order
    /\ t.clauses \cup t.learnts = s.clauses \cup s.learnts \cup {c}
    /\ (c \notin s.clauses \cup s.learnts => t.clauses \cap t.learnts = s.clauses \cap s.learnts)
    /\ t.watches = AddWatches(s.watches, {Neg(ls[1]), Neg(ls[2])}, c)
    /\ Shaped(t) /\ t.ok \in BOOLEAN /\ t.unitId \in [Vars(s) -> Nat]
    /\ t.log \in Seq(Range(t.log)) /\ LastId(t) >= LastId(s)

\* The clause is new and its watches are not settled.
LEMMA AttachesKeeps ==
  ASSUME NEW s, Coherent(s), Listed(s), NEW c \in 1 .. LastId(s), c \notin DOMAIN s.lits,
         NEW ls, IsClause(s, ls),
         \A i \in DOMAIN ls : Value(s, ls[i]) = True => ~Settled(s, Var(ls[i])),
         ~Settled(s, Var(ls[1])), ~Settled(s, Var(ls[2])),
         NEW t, Attaches(s, t, c, ls)
  PROVE  /\ Coherent(t) /\ Listed(t) /\ DOMAIN t.lits = DOMAIN s.lits \cup {c} /\ t.lits[c] = ls
         /\ \A e \in DOMAIN s.lits : t.lits[e] = s.lits[e] /\ e # c
         /\ \A e \in DOMAIN s.lits : \A h, late : Awake(s, e, h, late) => Awake(t, e, h, late)
<1>1. /\ SameTrail(s, t) /\ t.lits = With(s.lits, c, ls) /\ t.qhead = s.qhead
      /\ t.clauses \cup t.learnts = s.clauses \cup s.learnts \cup {c}
      /\ (c \notin s.clauses \cup s.learnts => t.clauses \cap t.learnts = s.clauses \cap s.learnts)
      /\ t.watches = AddWatches(s.watches, {Neg(ls[1]), Neg(ls[2])}, c)
      /\ Shaped(t) /\ t.ok \in BOOLEAN /\ t.unitId \in [Vars(s) -> Nat]
      /\ t.log \in Seq(Range(t.log)) /\ LastId(t) >= LastId(s)
  BY DEF Attaches
<1>2. /\ Vars(t) = Vars(s) /\ LitsOf(t) = LitsOf(s) /\ NAssigns(t) = NAssigns(s)
      /\ DecisionLevel(t) = DecisionLevel(s)
      /\ \A p : Value(t, p) = Value(s, p) /\ (IsFalse(t, p) <=> IsFalse(s, p)) /\ At(t, p) = At(s, p)
      /\ \A p, q : Guards(t, p, q) <=> Guards(s, p, q)
      /\ \A v : Settled(t, v) <=> Settled(s, v)
      /\ \A k, v : Implies(t, k, v) <=> Implies(s, k, v)
  BY <1>1, SameTrailIs
<1>3. /\ DOMAIN t.lits = DOMAIN s.lits \cup {c} /\ t.lits[c] = ls
      /\ \A e \in DOMAIN s.lits : t.lits[e] = s.lits[e] /\ e # c
  BY <1>1 DEF With
<1>4. t.reason = s.reason /\ t.rootLevel = s.rootLevel /\ t.simpAssigns = s.simpAssigns
  BY <1>1 DEF SameTrail
<1>5. /\ LastId(s) \in Nat /\ LastId(t) \in Nat /\ ls \in Seq(LitsOf(s)) /\ Len(ls) >= 2
      /\ ls[1] \in LitsOf(s) /\ ls[2] \in LitsOf(s) /\ Var(ls[1]) # Var(ls[2])
  <2>1. ls \in Seq(LitsOf(s)) /\ Len(ls) >= 2 /\ 1 \in DOMAIN ls /\ 2 \in DOMAIN ls
    BY DEF IsClause
  <2>2. Var(ls[1]) # Var(ls[2])
    <3>1. 1 # 2
      OBVIOUS
    <3>2. QED
      BY <2>1, <3>1 DEF IsClause
  <2>3. ls[1] \in LitsOf(s) /\ ls[2] \in LitsOf(s)
    BY <2>1
  <2>4. LastId(s) \in Nat
    BY Types
  <2>5. LastId(t) \in Nat
    <3>1. t.log \in Seq(Range(t.log))
      BY <1>1
    <3>2. QED
      BY <3>1 DEF LastId
  <2>6. QED
    BY <2>1, <2>2, <2>3, <2>4, <2>5
<1>6. \A e \in DOMAIN s.lits : Fixed(t, e) <=> Fixed(s, e)
  BY <1>2, <1>3, <1>4 DEF Fixed, Locked
<1>7. Typed(t)
  BY <1>1, <1>2, Types DEF Coherent, Typed, SameTrail
<1>8. Stored(t)
  <2>1. \A k : IsClause(s, k) => IsClause(t, k)
    BY <1>2 DEF IsClause
  <2>2. t.lits = [e \in DOMAIN t.lits |-> t.lits[e]]
    BY <1>1 DEF With
  <2>3. DOMAIN t.lits \subseteq 1 .. LastId(t)
    BY <1>1, <1>3, <1>5 DEF Coherent, Stored
  <2>4. \A e \in DOMAIN t.lits : IsClause(t, t.lits[e])
    BY <1>3, <2>1 DEF Coherent, Stored
  <2>5. t.clauses \cup t.learnts = DOMAIN t.lits /\ t.clauses \cap t.learnts = {}
    BY <1>1, <1>3 DEF Coherent, Stored
  <2>6. QED
    BY <2>2, <2>3, <2>4, <2>5 DEF Stored
<1>9. Trailed(t)
  BY <1>1, <1>2 DEF Coherent, Trailed, SameTrail
<1>10. Levelled(t)
  <2>1. \A v : LevelFits(s, v) => LevelFits(t, v)
    BY <1>1, <1>2 DEF LevelFits, SameTrail
  <2>2. QED
    BY <1>1, <1>2, <2>1 DEF Coherent, Levelled, SameTrail
<1>11. Reasoned(t)
  <2>1. ASSUME NEW v \in Vars(s), s.reason[v] # NoClause
        PROVE  s.reason[v] \in DOMAIN t.lits /\ Implies(t, t.lits[s.reason[v]], v)
    <3>1. s.reason[v] \in DOMAIN s.lits /\ Implies(s, s.lits[s.reason[v]], v)
      BY <2>1, ReasonIs
    <3>2. QED
      BY <1>2, <1>3, <3>1
  <2>2. QED
    BY <1>1, <1>2, <1>4, <2>1 DEF Coherent, Reasoned, SameTrail
<1>12. Simplified(t)
  <2>1. ASSUME NEW e \in DOMAIN t.lits, NEW i \in DOMAIN t.lits[e], Value(t, t.lits[e][i]) = True,
               Settled(t, Var(t.lits[e][i]))
        PROVE  Fixed(t, e)
    <3>1. CASE e = c
      BY <1>2, <1>3, <2>1, <3>1
    <3>2. CASE e \in DOMAIN s.lits
      BY <1>2, <1>3, <1>6, <2>1, <3>2 DEF Coherent, Simplified
    <3>3. QED
      BY <1>3, <3>1, <3>2
  <2>2. QED
    BY <1>2, <1>4, <2>1 DEF Coherent, Simplified, SameTrail, Attaches
<1>13. Coherent(t)
  BY <1>7, <1>8, <1>9, <1>10, <1>11, <1>12 DEF Coherent
<1>14. s.watches \in [LitsOf(s) -> Seq(Nat)] /\ c \in Nat
  BY <1>5 DEF Listed, Lists
<1>15. /\ DOMAIN t.watches = LitsOf(s)
       /\ \A p \in LitsOf(s) : t.watches[p] =
            IF p \in {Neg(ls[1]), Neg(ls[2])} THEN Append(s.watches[p], c) ELSE s.watches[p]
       /\ t.watches = [p \in LitsOf(s) |->
            IF p \in {Neg(ls[1]), Neg(ls[2])} THEN Append(s.watches[p], c) ELSE s.watches[p]]
  BY <1>1, <1>14 DEF AddWatches
<1>16. \A p \in LitsOf(s) : \A e \in Range(s.watches[p]) :
         e \in DOMAIN s.lits /\ Neg(p) \in {s.lits[e][1], s.lits[e][2]}
  BY <1>14 DEF Listed, Covers, Places
<1>17. \A p \in LitsOf(s) : s.watches[p] \in Seq(Nat) /\ c \notin Range(s.watches[p])
  BY <1>14, <1>16
<1>18. \A p \in LitsOf(s) :
         Range(t.watches[p]) = Range(s.watches[p]) \cup IF p \in {Neg(ls[1]), Neg(ls[2])} THEN {c} ELSE {}
  BY <1>15, <1>17, RangeAppend
<1>19. Lists(t, t.watches)
  <2>1. t.watches \in [LitsOf(s) -> Seq(Nat)]
    <3>1. \A p \in LitsOf(s) : Append(s.watches[p], c) \in Seq(Nat)
      BY <1>14, <1>17
    <3>2. QED
      BY <1>15, <1>17, <3>1
  <2>2. ASSUME NEW p \in LitsOf(s), NEW i \in DOMAIN t.watches[p], NEW j \in DOMAIN t.watches[p],
               t.watches[p][i] = t.watches[p][j]
        PROVE  i = j
    <3>1. \A a, b \in DOMAIN s.watches[p] : s.watches[p][a] = s.watches[p][b] => a = b
      BY DEF Listed, Lists
    <3>2. CASE t.watches[p] = s.watches[p]
      BY <2>2, <3>1, <3>2
    <3>3. CASE t.watches[p] = Append(s.watches[p], c)
      <4> DEFINE f == s.watches[p]
      <4>1. f \in Seq(Nat) /\ c \notin Range(f)
        BY <1>17
      <4>2. /\ Append(f, c)[Len(f) + 1] = c /\ \A k \in 1 .. Len(f) : Append(f, c)[k] = f[k] /\ f[k] # c
            /\ DOMAIN Append(f, c) = 1 .. Len(f) + 1 /\ Len(f) \in Nat /\ DOMAIN f = 1 .. Len(f)
        BY <4>1, RangeAppend, RangeIn
      <4>3. i \in 1 .. Len(f) + 1 /\ j \in 1 .. Len(f) + 1 /\ Append(f, c)[i] = Append(f, c)[j]
        BY <2>2, <3>3, <4>2
      <4>4. \A a, b \in 1 .. Len(f) : f[a] = f[b] => a = b
        BY <3>1, <4>2
      <4> HIDE DEF f
      <4>5. \A k \in 1 .. Len(f) + 1 : k # Len(f) + 1 => k \in 1 .. Len(f)
        BY <4>2
      <4>6. CASE i = Len(f) + 1
        BY <4>2, <4>3, <4>5, <4>6
      <4>7. CASE j = Len(f) + 1
        BY <4>2, <4>3, <4>5, <4>7
      <4>8. CASE i # Len(f) + 1 /\ j # Len(f) + 1
        BY <4>2, <4>3, <4>4, <4>5, <4>8
      <4>9. QED
        BY <4>6, <4>7, <4>8
    <3>4. QED
      BY <1>15, <3>2, <3>3
  <2>3. QED
    BY <1>2, <2>1, <2>2 DEF Lists
<1>20. Covers(t, Places(t.watches))
  <2>1. \A p \in LitsOf(s) : Places(t.watches)[p] = Range(t.watches[p]) /\ Places(s.watches)[p] = Range(s.watches[p])
    BY <1>14, <1>15 DEF Places
  <2>2. ASSUME NEW p \in LitsOf(s), NEW e \in Range(t.watches[p])
        PROVE  e \in DOMAIN t.lits /\ Neg(p) \in {t.lits[e][1], t.lits[e][2]}
    <3>1. CASE e \in Range(s.watches[p])
      BY <1>3, <1>16, <3>1
    <3>2. CASE e = c /\ p \in {Neg(ls[1]), Neg(ls[2])}
      BY <1>3, <1>5, <3>2, Types
    <3>3. QED
      BY <1>18, <3>1, <3>2
  <2>3. ASSUME NEW p \in LitsOf(s), Settled(s, Var(p)) PROVE Range(t.watches[p]) = {}
    <3>1. Range(s.watches[p]) = {}
      BY <2>1, <2>3 DEF Listed, Covers
    <3>2. p \notin {Neg(ls[1]), Neg(ls[2])}
      BY <1>5, <2>3, Types
    <3>3. QED
      BY <1>18, <3>1, <3>2
  <2>4. ASSUME NEW e \in DOMAIN t.lits, ~Fixed(t, e), NEW i \in {1, 2}
        PROVE  e \in Range(t.watches[Neg(t.lits[e][i])])
    <3>1. CASE e = c
      <4>1. t.lits[e][i] \in {ls[1], ls[2]} /\ Neg(t.lits[e][i]) \in {Neg(ls[1]), Neg(ls[2])}
        BY <1>3, <3>1
      <4>2. Neg(t.lits[e][i]) \in LitsOf(s)
        BY <1>5, <4>1, Types
      <4>3. QED
        BY <1>18, <3>1, <4>1, <4>2
    <3>2. CASE e \in DOMAIN s.lits
      <4>1. t.lits[e] = s.lits[e] /\ ~Fixed(s, e)
        BY <1>3, <1>6, <2>4, <3>2
      <4>2. s.lits[e][i] \in LitsOf(s)
        BY <3>2, LitsOfClause
      <4>3. Neg(s.lits[e][i]) \in LitsOf(s)
        BY <4>2, Types
      <4>4. e \in Range(s.watches[Neg(s.lits[e][i])])
        BY <2>1, <3>2, <4>1, <4>3 DEF Listed, Covers
      <4>5. QED
        BY <1>18, <4>1, <4>3, <4>4
    <3>3. QED
      BY <1>3, <3>1, <3>2
  <2>5. \A i \in {1, 2} : \A e \in DOMAIN t.lits : Neg(t.lits[e][i]) \in LitsOf(s)
    <3>1. \A e \in DOMAIN t.lits : t.lits[e][1] \in LitsOf(s) /\ t.lits[e][2] \in LitsOf(s)
      BY <1>3, <1>5, LitsOfClause
    <3>2. QED
      BY <3>1, Types
  <2>6. QED
    BY <1>2, <2>1, <2>2, <2>3, <2>4, <2>5 DEF Covers
<1>21. \A e \in DOMAIN s.lits : \A h, late : Awake(s, e, h, late) => Awake(t, e, h, late)
  BY <1>2, <1>3 DEF Awake
<1>22. QED
  BY <1>3, <1>13, <1>19, <1>20, <1>21 DEF Listed

-----------------------------------------------------------------------------
(***************************************************************************)
(* Clauses leave the store.                                                *)
(***************************************************************************)


\* A sequence without the member at i.
LEMMA RemovedAt ==
  ASSUME NEW f \in Seq(Nat), NEW i \in 1 .. Len(f)
  PROVE  /\ RemoveAt(f, i) \in Seq(Nat) /\ Len(RemoveAt(f, i)) = Len(f) - 1
         /\ \A j \in 1 .. Len(f) - 1 : RemoveAt(f, i)[j] = IF j < i THEN f[j] ELSE f[j + 1]
<1> DEFINE a == SubSeq(f, 1, i - 1)
           b == SubSeq(f, i + 1, Len(f))
           g == RemoveAt(f, i)
<1>1. Len(f) \in Nat /\ DOMAIN f = 1 .. Len(f)
  OBVIOUS
<1>2. a \in Seq(Nat) /\ Len(a) = i - 1 /\ \A j \in 1 .. i - 1 : a[j] = f[j]
  <2>1. i - 1 \in 0 .. Len(f)
    BY <1>1
  <2>2. QED
    BY <2>1, Prefix
<1>3. b \in Seq(Nat) /\ Len(b) = Len(f) - i /\ \A j \in 1 .. Len(f) - i : b[j] = f[i + j]
  <2>1. \A j \in i + 1 .. Len(f) : f[j] \in Nat
    BY <1>1
  <2>2. i + 1 \in Int /\ Len(f) \in Int
    BY <1>1
  <2>3. /\ b \in Seq(Nat) /\ Len(b) = IF i + 1 <= Len(f) THEN Len(f) - (i + 1) + 1 ELSE 0
        /\ \A j \in 1 .. Len(f) - (i + 1) + 1 : b[j] = f[i + 1 + j - 1]
    <3> DEFINE m == i + 1
               n == Len(f)
               d == SubSeq(f, m, n)
    <3>1. m \in Int /\ n \in Int /\ \A j \in m .. n : f[j] \in Nat
      BY <2>1, <2>2
    <3>2. b = d
      OBVIOUS
    <3> HIDE DEF m, n, b
    <3>3. /\ d \in Seq(Nat) /\ Len(d) = IF m <= n THEN n - m + 1 ELSE 0
          /\ \A j \in 1 .. n - m + 1 : d[j] = f[m + j - 1]
      BY <3>1, SubSeqProperties
    <3> HIDE DEF d
    <3>4. /\ b \in Seq(Nat) /\ Len(b) = IF m <= n THEN n - m + 1 ELSE 0
          /\ \A j \in 1 .. n - m + 1 : b[j] = f[m + j - 1]
      BY <3>2, <3>3
    <3>5. QED
      BY <3>4 DEF m, n
  <2> HIDE DEF b
  <2>4. Len(f) - (i + 1) + 1 = Len(f) - i /\ \A j \in 1 .. Len(f) - i : i + 1 + j - 1 = i + j
    BY <1>1
  <2>5. Len(b) = Len(f) - i
    <3>1. Len(b) = IF i + 1 <= Len(f) THEN Len(f) - (i + 1) + 1 ELSE 0
      BY <2>3
    <3>2. i \in Nat /\ i <= Len(f) /\ Len(f) \in Nat
      BY <1>1
    <3> HIDE DEF a, g
    <3>3. CASE i + 1 <= Len(f)
      BY <2>4, <3>1, <3>3
    <3>4. CASE ~(i + 1 <= Len(f))
      BY <3>1, <3>2, <3>4
    <3>5. QED
      BY <3>3, <3>4
  <2>6. ASSUME NEW j \in 1 .. Len(f) - i PROVE b[j] = f[i + j]
    <3>1. j \in 1 .. Len(f) - (i + 1) + 1 /\ i + 1 + j - 1 = i + j
      BY <1>1
    <3>2. b[j] = f[i + 1 + j - 1]
      BY <2>3, <3>1
    <3>3. QED
      BY <3>1, <3>2
  <2>7. QED
    BY <2>3, <2>5, <2>6
<1>4. g = a \o b
  BY DEF RemoveAt
<1> HIDE DEF a, b, g
<1>5. /\ a \o b \in Seq(Nat) /\ Len(a \o b) = Len(a) + Len(b)
      /\ \A j \in 1 .. Len(a) + Len(b) : (a \o b)[j] = IF j <= Len(a) THEN a[j] ELSE b[j - Len(a)]
  BY <1>2, <1>3, ConcatProperties
<1>6. /\ g \in Seq(Nat) /\ Len(g) = Len(a) + Len(b)
      /\ \A j \in 1 .. Len(a) + Len(b) : g[j] = IF j <= Len(a) THEN a[j] ELSE b[j - Len(a)]
  BY <1>4, <1>5, Zenon
<1>7. Len(g) = Len(f) - 1
  BY <1>1, <1>2, <1>3, <1>6
<1>8. ASSUME NEW j \in 1 .. Len(f) - 1 PROVE g[j] = IF j < i THEN f[j] ELSE f[j + 1]
  <2>1. CASE j < i
    <3>1. j \in 1 .. i - 1 /\ j <= Len(a) /\ j \in 1 .. Len(a) + Len(b)
      BY <1>1, <1>2, <1>3, <2>1
    <3>2. QED
      BY <1>2, <1>6, <2>1, <3>1
  <2>2. CASE ~(j < i)
    <3>1. j - (i - 1) \in 1 .. Len(f) - i /\ ~(j <= Len(a)) /\ j \in 1 .. Len(a) + Len(b) /\ i + (j - (i - 1)) = j + 1
      BY <1>1, <1>2, <1>3, <2>2
    <3>2. g[j] = b[j - (i - 1)]
      BY <1>2, <1>6, <3>1
    <3>3. b[j - (i - 1)] = f[i + (j - (i - 1))]
      BY <1>3, <3>1
    <3>4. QED
      BY <2>2, <3>1, <3>2, <3>3
  <2>3. QED
    BY <2>1, <2>2
<1>9. QED
  BY <1>6, <1>7, <1>8 DEF g

\* A list without a clause that is once in it.
LEMMA WithoutIs ==
  ASSUME NEW f \in Seq(Nat), \A i, j \in DOMAIN f : f[i] = f[j] => i = j, NEW c \in Range(f),
         NEW g, g = Without(f, c)
  PROVE  /\ g \in Seq(Nat) /\ Range(g) = Range(f) \ {c}
         /\ \A i, j \in DOMAIN g : g[i] = g[j] => i = j
<1>1. Len(f) \in Nat /\ DOMAIN f = 1 .. Len(f)
  OBVIOUS
<1>2. PICK n \in DOMAIN f : f[n] = c
  BY DEF Range
<1>3. \A j \in 1 .. n - 1 : f[j] # c
  <2>1. SUFFICES ASSUME NEW j \in 1 .. n - 1, f[j] = c PROVE FALSE
    OBVIOUS
  <2>2. j \in DOMAIN f /\ j # n
    BY <1>1
  <2>3. QED
    BY <1>2, <2>1, <2>2
<1> DEFINE m == CHOOSE i \in DOMAIN f : f[i] = c /\ \A j \in 1 .. i - 1 : f[j] # c
<1>4. m \in DOMAIN f /\ f[m] = c
  BY <1>2, <1>3
<1>5. g = RemoveAt(f, m)
  BY DEF Without
<1> HIDE DEF m
<1>6. m \in 1 .. Len(f)
  BY <1>1, <1>4
<1>7. /\ g \in Seq(Nat) /\ Len(g) = Len(f) - 1
      /\ \A j \in 1 .. Len(f) - 1 : g[j] = IF j < m THEN f[j] ELSE f[j + 1]
  <2>1. f \in Seq(Nat)
    OBVIOUS
  <2>2. /\ RemoveAt(f, m) \in Seq(Nat) /\ Len(RemoveAt(f, m)) = Len(f) - 1
        /\ \A j \in 1 .. Len(f) - 1 : RemoveAt(f, m)[j] = IF j < m THEN f[j] ELSE f[j + 1]
    BY <1>6, <2>1, RemovedAt
  <2>3. QED
    BY <1>5, <2>2, Zenon
<1>8. DOMAIN g = 1 .. Len(f) - 1
  BY <1>7
<1> DEFINE src(j) == IF j < m THEN j ELSE j + 1
<1>9. /\ \A j \in 1 .. Len(f) - 1 : src(j) \in 1 .. Len(f) /\ src(j) # m
      /\ \A i, j \in 1 .. Len(f) - 1 : src(i) = src(j) => i = j
  BY <1>1, <1>6
<1>10. \A j \in 1 .. Len(f) - 1 : g[j] = f[src(j)]
  BY <1>7
<1>11. \A k \in 1 .. Len(f) : k # m => \E j \in 1 .. Len(f) - 1 : src(j) = k
  <2>1. SUFFICES ASSUME NEW k \in 1 .. Len(f), k # m PROVE \E j \in 1 .. Len(f) - 1 : src(j) = k
    OBVIOUS
  <2>2. CASE k < m
    BY <1>1, <1>6, <2>2
  <2>3. CASE k > m
    <3>1. k - 1 \in 1 .. Len(f) - 1 /\ src(k - 1) = k
      BY <1>1, <1>6, <2>3
    <3>2. QED
      BY <3>1
  <2>4. QED
    BY <1>1, <1>6, <2>1, <2>2, <2>3
<1> HIDE DEF src
<1>12. \A i, j \in DOMAIN g : g[i] = g[j] => i = j
  <2>1. SUFFICES ASSUME NEW i \in 1 .. Len(f) - 1, NEW j \in 1 .. Len(f) - 1, g[i] = g[j] PROVE i = j
    BY <1>8
  <2>2. src(i) \in DOMAIN f /\ src(j) \in DOMAIN f /\ f[src(i)] = f[src(j)]
    BY <1>1, <1>9, <1>10, <2>1
  <2>3. src(i) = src(j)
    BY <2>2
  <2>4. QED
    BY <1>9, <2>3
<1>13. ASSUME NEW x \in Range(g) PROVE x \in Range(f) \ {c}
  <2>1. PICK j \in 1 .. Len(f) - 1 : x = g[j]
    BY <1>8, <1>13 DEF Range
  <2>2. x = f[src(j)] /\ src(j) \in DOMAIN f /\ src(j) # m
    BY <1>1, <1>9, <1>10, <2>1
  <2>3. QED
    BY <1>4, <2>2 DEF Range
<1>14. ASSUME NEW x \in Range(f), x # c PROVE x \in Range(g)
  <2>1. PICK k \in 1 .. Len(f) : x = f[k]
    BY <1>1 DEF Range
  <2>2. k # m
    BY <1>4, <1>14, <2>1
  <2>3. PICK j \in 1 .. Len(f) - 1 : src(j) = k
    BY <1>11, <2>2
  <2>4. x = g[j]
    BY <1>10, <2>1, <2>3
  <2>5. QED
    BY <1>8, <2>4 DEF Range
<1>15. Range(g) = Range(f) \ {c}
  BY <1>13, <1>14
<1>16. QED
  BY <1>7, <1>12, <1>15

\* A list without members is empty.
LEMMA NoMembers ==
  ASSUME NEW f \in Seq(Nat), Range(f) = {}
  PROVE  f = <<>>
<1>1. Len(f) \in Nat /\ \A i \in 1 .. Len(f) : f[i] \in Range(f)
  BY RangeIn
<1>2. Len(f) = 0
  <2>1. ~(1 \in 1 .. Len(f))
    BY <1>1
  <2>2. QED
    BY <1>1, <2>1
<1>3. QED
  BY <1>2

\* Nothing but the lists is changed.
SameButWatches(s, t) ==
    /\ Shaped(t) /\ t.ok = s.ok /\ t.lits = s.lits /\ t.clauses = s.clauses
    /\ t.learnts = s.learnts /\ t.unitId = s.unitId /\ t.order = s.order
    /\ t.assigns = s.assigns /\ t.trail = s.trail /\ t.trailLim = s.trailLim
    /\ t.reason = s.reason /\ t.level = s.level /\ t.trailPos = s.trailPos
    /\ t.rootLevel = s.rootLevel /\ t.qhead = s.qhead /\ t.simpAssigns = s.simpAssigns
    /\ t.log = s.log

\* The lists of s, of which those of the literals in ps have lost the clauses in cs.
Lighter(s, w, ps, cs) ==
    \A p \in LitsOf(s) : Range(w[p]) = IF p \in ps THEN Range(s.watches[p]) \ cs ELSE Range(s.watches[p])

\* A list loses a clause that is in it, unless it was cleared.
LEMMA RemoveWatchIs ==
  ASSUME NEW s, Shaped(s), Lists(s, s.watches), NEW p \in LitsOf(s), NEW c,
         c \in Range(s.watches[p]) \/ Range(s.watches[p]) = {},
         NEW t, t = RemoveWatch(s, p, c)
  PROVE  SameButWatches(s, t) /\ Lists(s, t.watches) /\ Lighter(s, t.watches, {p}, {c})
<1>1. CASE s.watches[p] = <<>>
  <2>1. t = s
    BY <1>1 DEF RemoveWatch
  <2>2. Range(s.watches[p]) = {}
    BY <1>1 DEF Range
  <2>3. QED
    BY <2>1, <2>2 DEF SameButWatches, Lighter
<1>2. CASE s.watches[p] # <<>>
  <2>1. SameButWatches(s, t) /\ t.watches = [s.watches EXCEPT ![p] = Without(@, c)]
    <3>1. Unlisted(s, t, p, c)
      BY <1>2, RemoveWatchFields
    <3>2. QED
      BY <3>1 DEF Unlisted, SameButWatches
  <2>2. s.watches \in [LitsOf(s) -> Seq(Nat)] /\ \A q \in LitsOf(s) : \A i, j \in DOMAIN s.watches[q] :
          s.watches[q][i] = s.watches[q][j] => i = j
    BY DEF Lists
  <2>3. s.watches[p] \in Seq(Nat) /\ c \in Range(s.watches[p])
    <3>1. s.watches[p] \in Seq(Nat)
      BY <2>2
    <3>2. Range(s.watches[p]) # {}
      BY <1>2, <3>1, NoMembers
    <3>3. QED
      BY <3>1, <3>2
  <2> DEFINE g == Without(s.watches[p], c)
  <2>4. /\ g \in Seq(Nat) /\ Range(g) = Range(s.watches[p]) \ {c}
        /\ \A i, j \in DOMAIN g : g[i] = g[j] => i = j
    BY <2>2, <2>3, WithoutIs
  <2>5. t.watches = [s.watches EXCEPT ![p] = g]
    BY <2>1
  <2> HIDE DEF g
  <2>6. t.watches \in [LitsOf(s) -> Seq(Nat)] /\ t.watches[p] = g /\ \A q \in LitsOf(s) : q # p => t.watches[q] = s.watches[q]
    BY <2>2, <2>4, <2>5
  <2>7. \A q \in LitsOf(s) : \A i, j \in DOMAIN t.watches[q] : t.watches[q][i] = t.watches[q][j] => i = j
    <3>1. TAKE q \in LitsOf(s)
    <3>2. CASE q = p
      BY <2>4, <2>6, <3>2
    <3>3. CASE q # p
      BY <2>2, <2>6, <3>3
    <3>4. QED
      BY <3>2, <3>3
  <2>8. Lists(s, t.watches)
    BY <2>6, <2>7 DEF Lists
  <2>9. Lighter(s, t.watches, {p}, {c})
    BY <2>4, <2>6 DEF Lighter
  <2>10. QED
    BY <2>1, <2>8, <2>9
<1>3. QED
  BY <1>1, <1>2

\* Clause c is in the store and, if in any, in the lists it watches.
Filed(s, c) ==
    /\ c \in DOMAIN s.lits /\ s.lits[c][1] \in LitsOf(s) /\ s.lits[c][2] \in LitsOf(s)
    /\ Var(s.lits[c][1]) # Var(s.lits[c][2])
    /\ \A i \in {1, 2} : LET p == Neg(s.lits[c][i]) IN
         c \in Range(s.watches[p]) \/ Range(s.watches[p]) = {}
    /\ \A p \in LitsOf(s) : c \in Range(s.watches[p]) => Neg(p) \in {s.lits[c][1], s.lits[c][2]}

\* The clauses in cs have left the store.
Drops(s, t, cs) ==
    /\ SameTrail(s, t) /\ t.lits = Restrict(s.lits, DOMAIN s.lits \ cs)
    /\ t.clauses = s.clauses \ cs /\ t.learnts = s.learnts \ cs
    /\ t.qhead = s.qhead /\ t.order = s.order
    /\ Shaped(t) /\ t.ok = s.ok /\ t.unitId = s.unitId /\ t.log = s.log
    /\ Lists(s, t.watches) /\ \A p \in LitsOf(s) : Range(t.watches[p]) = Range(s.watches[p]) \ cs

\* removeClause.
LEMMA RemoveClauseIs ==
  ASSUME NEW s, Shaped(s), Lists(s, s.watches), Vars(s) \subseteq Nat, NEW c, Filed(s, c),
         NEW t, t = RemoveClause(s, c)
  PROVE  Drops(s, t, {c})
<1> DEFINE a == s.lits[c][1]
           b == s.lits[c][2]
           u == RemoveWatch(s, Neg(a), c)
           v == RemoveWatch(u, Neg(b), c)
<1>1. /\ c \in DOMAIN s.lits /\ a \in LitsOf(s) /\ b \in LitsOf(s) /\ Var(a) # Var(b)
      /\ c \in Range(s.watches[Neg(a)]) \/ Range(s.watches[Neg(a)]) = {}
      /\ c \in Range(s.watches[Neg(b)]) \/ Range(s.watches[Neg(b)]) = {}
      /\ \A p \in LitsOf(s) : c \in Range(s.watches[p]) => Neg(p) \in {a, b}
  BY DEF Filed
<1>2. t = Forget(v, c)
  BY DEF RemoveClause
<1> HIDE DEF a, b
<1>3. Neg(a) \in LitsOf(s) /\ Neg(b) \in LitsOf(s) /\ Neg(a) # Neg(b)
  BY <1>1, NegIn, Literal
<1>4. SameButWatches(s, u) /\ Lists(s, u.watches) /\ Lighter(s, u.watches, {Neg(a)}, {c})
  BY <1>1, <1>3, RemoveWatchIs
<1> HIDE DEF u
<1>5. Shaped(u) /\ LitsOf(u) = LitsOf(s) /\ Vars(u) = Vars(s)
  BY <1>4 DEF SameButWatches, LitsOf, Vars
<1>6. Lists(u, u.watches) /\ Neg(b) \in LitsOf(u)
  BY <1>3, <1>4, <1>5 DEF Lists
<1>7. c \in Range(u.watches[Neg(b)]) \/ Range(u.watches[Neg(b)]) = {}
  <2>1. Range(u.watches[Neg(b)]) = Range(s.watches[Neg(b)])
    BY <1>3, <1>4 DEF Lighter
  <2>2. QED
    BY <1>1, <2>1
<1>8. SameButWatches(u, v) /\ Lists(u, v.watches) /\ Lighter(u, v.watches, {Neg(b)}, {c})
  BY <1>5, <1>6, <1>7, RemoveWatchIs
<1> HIDE DEF v
<1>9. Shaped(v)
  BY <1>8 DEF SameButWatches
<1>10. /\ Shaped(t) /\ t.ok = v.ok /\ t.unitId = v.unitId /\ t.order = v.order
       /\ t.watches = v.watches /\ SameTrail(v, t) /\ t.qhead = v.qhead /\ t.log = v.log
       /\ t.lits = Restrict(v.lits, DOMAIN v.lits \ {c})
       /\ t.clauses = v.clauses \ {c} /\ t.learnts = v.learnts \ {c}
  <2>1. /\ Shaped(t) /\ t.ok = v.ok /\ t.unitId = v.unitId /\ t.order = v.order
        /\ t.watches = v.watches /\ t.assigns = v.assigns /\ t.trail = v.trail
        /\ t.trailLim = v.trailLim /\ t.reason = v.reason /\ t.level = v.level
        /\ t.trailPos = v.trailPos /\ t.rootLevel = v.rootLevel /\ t.qhead = v.qhead
        /\ t.simpAssigns = v.simpAssigns /\ t.log = v.log
        /\ t.lits = Restrict(v.lits, DOMAIN v.lits \ {c})
        /\ t.clauses = v.clauses \ {c} /\ t.learnts = v.learnts \ {c}
    <3>1. Forgotten(v, t, c)
      BY <1>2, <1>9, ForgetIs
    <3>2. QED
      BY <3>1 DEF Forgotten
  <2>2. QED
    BY <2>1 DEF SameTrail
<1>11. /\ t.ok = s.ok /\ t.unitId = s.unitId /\ t.order = s.order /\ SameTrail(s, t)
       /\ t.qhead = s.qhead /\ t.log = s.log /\ t.lits = Restrict(s.lits, DOMAIN s.lits \ {c})
       /\ t.clauses = s.clauses \ {c} /\ t.learnts = s.learnts \ {c}
  BY <1>4, <1>8, <1>10 DEF SameButWatches, SameTrail
<1>12. Lists(s, t.watches)
  BY <1>5, <1>8, <1>10 DEF Lists
<1>13. \A p \in LitsOf(s) : Range(t.watches[p]) = Range(s.watches[p]) \ {c}
  <2>1. TAKE p \in LitsOf(s)
  <2>2. Range(u.watches[p]) = IF p = Neg(a) THEN Range(s.watches[p]) \ {c} ELSE Range(s.watches[p])
    BY <1>4 DEF Lighter
  <2>3. Range(v.watches[p]) = IF p = Neg(b) THEN Range(u.watches[p]) \ {c} ELSE Range(u.watches[p])
    BY <1>5, <1>8 DEF Lighter
  <2>4. p # Neg(a) /\ p # Neg(b) => c \notin Range(s.watches[p])
    <3>1. Neg(Neg(p)) = p
      BY NegIn, Literal
    <3>2. QED
      BY <1>1, <3>1
  <2>5. QED
    BY <1>10, <2>2, <2>3, <2>4
<1>14. QED
  BY <1>10, <1>11, <1>12, <1>13 DEF Drops

\* One removal after another.
LEMMA DropsFiled ==
  ASSUME NEW s, Vars(s) \subseteq Nat, NEW A, NEW t, Drops(s, t, A), NEW c, c \notin A, Filed(s, c)
  PROVE  Filed(t, c)
<1>1. /\ LitsOf(t) = LitsOf(s) /\ t.lits = Restrict(s.lits, DOMAIN s.lits \ A)
      /\ \A p \in LitsOf(s) : Range(t.watches[p]) = Range(s.watches[p]) \ A
  BY SameTrailIs DEF Drops
<1>2. /\ c \in DOMAIN s.lits /\ s.lits[c][1] \in LitsOf(s) /\ s.lits[c][2] \in LitsOf(s)
      /\ Var(s.lits[c][1]) # Var(s.lits[c][2])
      /\ \A i \in {1, 2} : \/ c \in Range(s.watches[Neg(s.lits[c][i])])
                           \/ Range(s.watches[Neg(s.lits[c][i])]) = {}
      /\ \A p \in LitsOf(s) : c \in Range(s.watches[p]) => Neg(p) \in {s.lits[c][1], s.lits[c][2]}
  BY DEF Filed
<1>3. t.lits[c] = s.lits[c] /\ c \in DOMAIN t.lits
  BY <1>1, <1>2 DEF Restrict
<1>4. \A p \in LitsOf(s) : c \in Range(t.watches[p]) <=> c \in Range(s.watches[p])
  BY <1>1
<1>5. \A i \in {1, 2} : \/ c \in Range(t.watches[Neg(t.lits[c][i])])
                       \/ Range(t.watches[Neg(t.lits[c][i])]) = {}
  <2>1. TAKE i \in {1, 2}
  <2>2. s.lits[c][i] \in LitsOf(s)
    BY <1>2
  <2>3. Neg(s.lits[c][i]) \in LitsOf(s)
    BY <2>2, NegIn
  <2>4. Range(t.watches[Neg(s.lits[c][i])]) = Range(s.watches[Neg(s.lits[c][i])]) \ A
    BY <1>1, <2>3
  <2>5. QED
    BY <1>2, <1>3, <2>4
<1>6. QED
  BY <1>1, <1>2, <1>3, <1>4, <1>5 DEF Filed

\* Dropping one set of clauses and then another drops both.
LEMMA DropsTwice ==
  ASSUME NEW s, NEW A, NEW t, Drops(s, t, A), NEW B, NEW u, Drops(t, u, B)
  PROVE  Drops(s, u, A \cup B)
<1>1. /\ SameTrail(s, u) /\ u.clauses = s.clauses \ (A \cup B) /\ u.learnts = s.learnts \ (A \cup B)
      /\ u.qhead = s.qhead /\ u.order = s.order
      /\ Shaped(u) /\ u.ok = s.ok /\ u.unitId = s.unitId /\ u.log = s.log
  BY DEF Drops, SameTrail
<1>2. LitsOf(t) = LitsOf(s)
  BY SameTrailIs DEF Drops
<1>3. Lists(s, u.watches) /\ \A p \in LitsOf(s) : Range(u.watches[p]) = Range(s.watches[p]) \ (A \cup B)
  BY <1>2 DEF Drops, Lists
<1>4. u.lits = Restrict(s.lits, DOMAIN s.lits \ (A \cup B))
  <2>1. t.lits = Restrict(s.lits, DOMAIN s.lits \ A) /\ u.lits = Restrict(t.lits, DOMAIN t.lits \ B)
    BY DEF Drops
  <2>2. QED
    BY <2>1 DEF Restrict
<1>5. QED
  BY <1>1, <1>3, <1>4 DEF Drops

\* The clauses of a set, one after the other.
LEMMA RemoveAllIs ==
  ASSUME NEW s, Shaped(s), Lists(s, s.watches), Vars(s) \subseteq Nat, LastId(s) \in Nat,
         Stored(s),
         NEW cs, \A c \in cs : Filed(s, c), NEW t, t = RemoveAll(s, cs)
  PROVE  Drops(s, t, cs)
<1> DEFINE n == LastId(s)
           r(k) == Removals(s, cs)[k]
           P == {k \in 0 .. n : Drops(s, r(k), cs \cap 1 .. k)}
<1>1. r(0) = s /\ \A k \in 1 .. n : r(k) = RemoveIfIn(r(k - 1), k, cs)
  BY RemoveSteps
<1>2. cs \subseteq 1 .. n
  BY DEF Filed, Stored
<1> HIDE DEF r
<1>3. 0 \in P
  <2>1. cs \cap 1 .. 0 = {}
    OBVIOUS
  <2>2. s.lits = Restrict(s.lits, DOMAIN s.lits \ {})
    BY DEF Restrict, Stored
  <2>3. Drops(s, s, {})
    BY <2>2 DEF Drops, SameTrail
  <2>4. QED
    BY <1>1, <2>1, <2>3
<1>4. ASSUME NEW k \in 1 .. n, k - 1 \in P PROVE k \in P
  <2>1. Drops(s, r(k - 1), cs \cap 1 .. k - 1) /\ r(k) = RemoveIfIn(r(k - 1), k, cs)
    BY <1>1, <1>4
  <2>2. CASE k \in cs
    <3>1. r(k) = RemoveClause(r(k - 1), k)
      BY <2>1, <2>2 DEF RemoveIfIn
    <3>2. Filed(s, k) /\ k \notin cs \cap 1 .. k - 1
      BY <2>2 DEF Filed
    <3>3. Filed(r(k - 1), k)
      <4>1. \A A, u : Drops(s, u, A) /\ k \notin A => Filed(u, k)
        BY <3>2, DropsFiled
      <4>2. QED
        BY <2>1, <3>2, <4>1
    <3>4. /\ Shaped(r(k - 1)) /\ LitsOf(r(k - 1)) = LitsOf(s) /\ Vars(r(k - 1)) = Vars(s)
          /\ Lists(s, r(k - 1).watches)
      BY <2>1, SameTrailIs DEF Drops
    <3>5. Lists(r(k - 1), r(k - 1).watches)
      BY <3>4 DEF Lists
    <3>6. Drops(r(k - 1), r(k), {k})
      BY <3>1, <3>3, <3>4, <3>5, RemoveClauseIs
    <3>7. Drops(s, r(k), (cs \cap 1 .. k - 1) \cup {k})
      BY <2>1, <3>6, DropsTwice
    <3>8. (cs \cap 1 .. k - 1) \cup {k} = cs \cap 1 .. k
      BY <1>2, <2>2
    <3>9. QED
      BY <3>7, <3>8
  <2>3. CASE k \notin cs
    <3>1. r(k) = r(k - 1)
      BY <2>1, <2>3 DEF RemoveIfIn
    <3>2. cs \cap 1 .. k - 1 = cs \cap 1 .. k
      BY <1>2, <2>3
    <3>3. QED
      BY <2>1, <3>1, <3>2
  <2>4. QED
    BY <2>2, <2>3
<1>5. n \in P
  <2> HIDE DEF P
  <2>1. QED
    BY <1>3, <1>4, UpTo
<1>6. cs \cap 1 .. n = cs /\ t = r(n)
  BY <1>2 DEF r, RemoveAll
<1>7. QED
  BY <1>5, <1>6

\* Clauses that are no reasons may go.
LEMMA DropsKeeps ==
  ASSUME NEW s, Coherent(s), NEW cs, \A c \in cs : c \in DOMAIN s.lits /\ ~Locked(s, c), NEW t, Drops(s, t, cs)
  PROVE  /\ Coherent(t) /\ DOMAIN t.lits = DOMAIN s.lits \ cs
         /\ \A e \in DOMAIN t.lits : t.lits[e] = s.lits[e] /\ (Fixed(t, e) <=> Fixed(s, e))
         /\ Lists(t, t.watches)
         /\ Sound(s) => Sound(t)
         /\ \A h, late : Watching(s, h, late) => Watching(t, h, late)
<1>1. /\ SameTrail(s, t) /\ t.clauses = s.clauses \ cs /\ t.learnts = s.learnts \ cs
      /\ t.qhead = s.qhead /\ t.order = s.order
      /\ Shaped(t) /\ t.ok = s.ok /\ t.unitId = s.unitId /\ t.log = s.log
      /\ Lists(s, t.watches) /\ \A p \in LitsOf(s) : Range(t.watches[p]) = Range(s.watches[p]) \ cs
  BY DEF Drops
<1>2. /\ Vars(t) = Vars(s) /\ LitsOf(t) = LitsOf(s) /\ NAssigns(t) = NAssigns(s)
      /\ DecisionLevel(t) = DecisionLevel(s) /\ Unassigned(t) = Unassigned(s)
      /\ \A p : Value(t, p) = Value(s, p) /\ (IsFalse(t, p) <=> IsFalse(s, p)) /\ At(t, p) = At(s, p)
      /\ \A p, q : Guards(t, p, q) <=> Guards(s, p, q)
      /\ \A v : Settled(t, v) <=> Settled(s, v)
      /\ \A k, v : Implies(t, k, v) <=> Implies(s, k, v)
  BY <1>1, SameTrailIs
<1>3. /\ DOMAIN t.lits = DOMAIN s.lits \ cs /\ \A e \in DOMAIN t.lits : t.lits[e] = s.lits[e]
      /\ t.lits = [e \in DOMAIN t.lits |-> t.lits[e]]
  BY DEF Drops, Restrict
<1>4. t.reason = s.reason /\ t.rootLevel = s.rootLevel /\ t.simpAssigns = s.simpAssigns
  BY <1>1 DEF SameTrail
<1>5. \A e \in DOMAIN t.lits : Fixed(t, e) <=> Fixed(s, e)
  BY <1>2, <1>3, <1>4 DEF Fixed, Locked
<1>6. Typed(t)
  BY <1>1, <1>2, Types DEF Coherent, Typed, SameTrail
<1>7. LastId(t) = LastId(s)
  BY <1>1 DEF LastId
<1>8. Stored(t)
  <2>1. \A k : IsClause(s, k) => IsClause(t, k)
    BY <1>2 DEF IsClause
  <2>2. /\ DOMAIN s.lits \subseteq 1 .. LastId(s) /\ s.clauses \cup s.learnts = DOMAIN s.lits
        /\ s.clauses \cap s.learnts = {} /\ \A c \in DOMAIN s.lits : IsClause(s, s.lits[c])
    BY DEF Coherent, Stored
  <2>3. QED
    BY <1>1, <1>3, <1>7, <2>1, <2>2 DEF Stored
<1>9. Trailed(t)
  BY <1>1, <1>2 DEF Coherent, Trailed, SameTrail
<1>10. Levelled(t)
  <2>1. \A v : LevelFits(s, v) => LevelFits(t, v)
    BY <1>1, <1>2 DEF LevelFits, SameTrail
  <2>2. QED
    BY <1>1, <1>2, <2>1 DEF Coherent, Levelled, SameTrail
<1>11. Reasoned(t)
  <2>1. ASSUME NEW v \in Vars(s), s.reason[v] # NoClause
        PROVE  s.reason[v] \in DOMAIN t.lits /\ Implies(t, t.lits[s.reason[v]], v)
    <3>1. s.reason[v] \in DOMAIN s.lits /\ Implies(s, s.lits[s.reason[v]], v)
      BY <2>1, ReasonIs
    <3>2. Locked(s, s.reason[v])
      BY <3>1, ReasonFirst
    <3>3. s.reason[v] \in DOMAIN t.lits
      BY <1>3, <3>1, <3>2
    <3>4. QED
      BY <1>2, <1>3, <3>1, <3>3
  <2>2. QED
    BY <1>1, <1>2, <1>4, <2>1 DEF Coherent, Reasoned, SameTrail
<1>12. Simplified(t)
  <2>1. ASSUME NEW e \in DOMAIN t.lits, NEW i \in DOMAIN t.lits[e], Value(t, t.lits[e][i]) = True,
               Settled(t, Var(t.lits[e][i]))
        PROVE  Fixed(t, e)
    <3>1. e \in DOMAIN s.lits /\ t.lits[e] = s.lits[e]
      BY <1>3
    <3>2. QED
      BY <1>2, <1>5, <2>1, <3>1 DEF Coherent, Simplified
  <2>2. QED
    BY <1>1, <1>2, <1>4, <2>1 DEF Coherent, Simplified, SameTrail
<1>13. Coherent(t)
  BY <1>6, <1>8, <1>9, <1>10, <1>11, <1>12 DEF Coherent
<1>14. Lists(t, t.watches)
  BY <1>1, <1>2 DEF Lists
<1>15. ASSUME Sound(s) PROVE Sound(t)
  <2>1. s.watches \in [LitsOf(s) -> Seq(Nat)] /\ t.watches \in [LitsOf(s) -> Seq(Nat)]
    BY <1>1, <1>15 DEF Sound, Listed, Lists
  <2>2. \A p \in LitsOf(s) : Places(s.watches)[p] = Range(s.watches[p]) /\ Places(t.watches)[p] = Range(s.watches[p]) \ cs
    BY <1>1, <2>1 DEF Places
  <2>3. /\ \A p \in LitsOf(s) : \A c \in Range(s.watches[p]) :
             c \in DOMAIN s.lits /\ Neg(p) \in {s.lits[c][1], s.lits[c][2]}
        /\ \A p \in LitsOf(s) : Settled(s, Var(p)) => Range(s.watches[p]) = {}
        /\ \A c \in DOMAIN s.lits : Fixed(s, c) \/ \A i \in {1, 2} : c \in Places(s.watches)[Neg(s.lits[c][i])]
    BY <1>15, <2>2 DEF Sound, Listed, Covers
  <2>4. \A p \in LitsOf(t) : \A c \in Places(t.watches)[p] :
          c \in DOMAIN t.lits /\ Neg(p) \in {t.lits[c][1], t.lits[c][2]}
    BY <1>2, <1>3, <2>2, <2>3
  <2>5. \A p \in LitsOf(t) : Settled(t, Var(p)) => Places(t.watches)[p] = {}
    BY <1>2, <2>2, <2>3
  <2>6. ASSUME NEW c \in DOMAIN t.lits, ~Fixed(t, c), NEW i \in {1, 2}
        PROVE  c \in Places(t.watches)[Neg(t.lits[c][i])]
    <3>1. c \in DOMAIN s.lits /\ c \notin cs /\ t.lits[c] = s.lits[c] /\ ~Fixed(s, c)
      BY <1>3, <1>5, <2>6
    <3>2. s.lits[c][i] \in LitsOf(s)
      BY <3>1, LitsOfClause
    <3>3. Neg(s.lits[c][i]) \in LitsOf(s)
      BY <3>2, Types
    <3>4. c \in Places(s.watches)[Neg(s.lits[c][i])]
      BY <2>3, <3>1
    <3>5. QED
      BY <2>2, <3>1, <3>3, <3>4
  <2>7. Covers(t, Places(t.watches))
    BY <2>4, <2>5, <2>6 DEF Covers
  <2>8. QED
    BY <1>1, <1>2, <1>13, <1>14, <1>15, <2>7 DEF Sound, Listed
<1>16. ASSUME NEW h, NEW late, Watching(s, h, late) PROVE Watching(t, h, late)
  BY <1>2, <1>3, <1>16 DEF Watching, Awake
<1>17. QED
  BY <1>3, <1>5, <1>13, <1>14, <1>15, <1>16

\* reduceDB.
LEMMA RemoveKeeps ==
  ASSUME NEW s, Sound(s), NEW cs, \A c \in cs : c \in DOMAIN s.lits /\ ~Locked(s, c),
         NEW t, t = RemoveAll(s, cs)
  PROVE  Drops(s, t, cs) /\ Sound(t) /\ \A h, late : Watching(s, h, late) => Watching(t, h, late)
<1>1. Coherent(s) /\ Lists(s, s.watches) /\ Covers(s, Places(s.watches))
  BY DEF Sound, Listed
<1>2. Shaped(s) /\ Vars(s) \subseteq Nat /\ LastId(s) \in Nat /\ Stored(s)
  BY <1>1, Types DEF Coherent
<1>3. ASSUME NEW c \in cs PROVE Filed(s, c)
  <2>1. c \in DOMAIN s.lits /\ ~Fixed(s, c)
    BY <1>3 DEF Fixed
  <2>2. /\ s.lits[c][1] \in LitsOf(s) /\ s.lits[c][2] \in LitsOf(s) /\ Var(s.lits[c][1]) # Var(s.lits[c][2])
    BY <1>1, <2>1, LitsOfClause
  <2>3. \A p \in LitsOf(s) : Places(s.watches)[p] = Range(s.watches[p])
    BY <1>1 DEF Lists, Places
  <2>4. \A i \in {1, 2} : Neg(s.lits[c][i]) \in LitsOf(s)
    BY <1>1, <2>2, Types
  <2>5. \A i \in {1, 2} : c \in Range(s.watches[Neg(s.lits[c][i])])
    BY <1>1, <2>1, <2>3, <2>4 DEF Covers
  <2>6. \A p \in LitsOf(s) : c \in Range(s.watches[p]) => Neg(p) \in {s.lits[c][1], s.lits[c][2]}
    BY <1>1, <2>3 DEF Covers
  <2>7. QED
    BY <2>1, <2>2, <2>5, <2>6 DEF Filed
<1>4. Drops(s, t, cs)
  BY <1>1, <1>2, <1>3, RemoveAllIs
<1>5. QED
  BY <1>1, <1>4, DropsKeeps

-----------------------------------------------------------------------------
(***************************************************************************)
(* simplifyDB: the lists of the variables newly settled are cleared and    *)
(* what is satisfied leaves the store.                                     *)
(***************************************************************************)
Simplifies(s, t, n) ==
    /\ Shaped(t) /\ t.ok = s.ok /\ t.lits = s.lits /\ t.clauses = s.clauses
    /\ t.learnts = s.learnts /\ t.unitId = s.unitId /\ t.order = s.order /\ t.watches = s.watches
    /\ t.assigns = s.assigns /\ t.trail = s.trail /\ t.trailLim = s.trailLim
    /\ t.reason = s.reason /\ t.level = s.level /\ t.trailPos = s.trailPos
    /\ t.rootLevel = s.rootLevel /\ t.qhead = s.qhead /\ t.log = s.log /\ t.simpAssigns = n

\* What noting the simplified part of the trail changes.
LEMMA SimplifiesIs ==
  ASSUME NEW s, Shaped(s), NEW n, NEW t, t = [s EXCEPT !.simpAssigns = n]
  PROVE  Simplifies(s, t, n)
BY SMT DEF Shaped, Fields, Simplifies

\* At level 0 every clause with a true literal is either a reason or is gone.
LEMMA SimplifiesKeeps ==
  ASSUME NEW s, Coherent(s), DecisionLevel(s) = 0,
         \A c \in DOMAIN s.lits : \A i \in DOMAIN s.lits[c] : Value(s, s.lits[c][i]) = True => Locked(s, c),
         NEW t, Simplifies(s, t, NAssigns(s))
  PROVE  /\ Coherent(t) /\ DecisionLevel(t) = 0 /\ LitsOf(t) = LitsOf(s) /\ NAssigns(t) = NAssigns(s)
         /\ Unassigned(t) = Unassigned(s) /\ \A p : Value(t, p) = Value(s, p)
         /\ \A p \in LitsOf(s) : Settled(t, Var(p)) => Value(s, p) # Undef
         /\ \A c \in DOMAIN s.lits : \A i \in DOMAIN s.lits[c] : Value(s, s.lits[c][i]) = True => Fixed(t, c)
         /\ \A w : Lists(s, w) => Lists(t, w)
         /\ \A h, late : Watching(s, h, late) => Watching(t, h, late)
<1>1. /\ Shaped(t) /\ t.ok = s.ok /\ t.lits = s.lits /\ t.clauses = s.clauses
      /\ t.learnts = s.learnts /\ t.unitId = s.unitId /\ t.order = s.order /\ t.watches = s.watches
      /\ t.assigns = s.assigns /\ t.trail = s.trail /\ t.trailLim = s.trailLim
      /\ t.reason = s.reason /\ t.level = s.level /\ t.trailPos = s.trailPos
      /\ t.rootLevel = s.rootLevel /\ t.qhead = s.qhead /\ t.log = s.log /\ t.simpAssigns = NAssigns(s)
  BY DEF Simplifies
<1>2. /\ Vars(t) = Vars(s) /\ LitsOf(t) = LitsOf(s) /\ NAssigns(t) = NAssigns(s)
      /\ DecisionLevel(t) = DecisionLevel(s) /\ Unassigned(t) = Unassigned(s) /\ LastId(t) = LastId(s)
      /\ \A p : Value(t, p) = Value(s, p) /\ (IsFalse(t, p) <=> IsFalse(s, p)) /\ At(t, p) = At(s, p)
  BY <1>1 DEF Vars, LitsOf, NAssigns, DecisionLevel, Unassigned, LastId, Value, IsFalse, At
<1>3. \A p, q : Outlives(t, p, q) <=> Outlives(s, p, q)
  BY <1>1, <1>2 DEF Outlives
<1>4. NAssigns(s) \in Nat
  BY Types
<1>5. Typed(t)
  BY <1>1, <1>2, <1>4, Types DEF Coherent, Typed
<1>6. Stored(t)
  <2>1. \A k : IsClause(s, k) => IsClause(t, k)
    BY <1>2 DEF IsClause
  <2>2. QED
    BY <1>1, <1>2, <2>1 DEF Coherent, Stored
<1>7. Trailed(t)
  BY <1>1, <1>2 DEF Coherent, Trailed
<1>8. Levelled(t)
  <2>1. \A v : LevelFits(s, v) => LevelFits(t, v)
    BY <1>1, <1>2 DEF LevelFits
  <2>2. QED
    BY <1>1, <1>2, <2>1 DEF Coherent, Levelled
<1>9. Reasoned(t)
  <2>1. \A k, v : Implies(s, k, v) => Implies(t, k, v)
    BY <1>1, <1>2 DEF Implies
  <2>2. QED
    BY <1>1, <1>2, <2>1 DEF Coherent, Reasoned
<1>10. ASSUME NEW c \in DOMAIN s.lits, NEW i \in DOMAIN s.lits[c], Value(s, s.lits[c][i]) = True
       PROVE  Fixed(t, c)
  <2>1. Locked(s, c)
    BY <1>10
  <2>2. Implies(s, s.lits[c], Var(s.lits[c][1]))
    BY <2>1, LockedIs
  <2>3. s.lits[c][1] \in LitsOf(s) /\ Value(s, s.lits[c][1]) = True
    BY <2>2, LitsOfClause DEF Implies
  <2>4. Value(s, s.lits[c][1]) # Undef
    BY <2>3 DEF True, Undef
  <2>5. s.assigns[Var(s.lits[c][1])] # Undef /\ s.trailPos[Var(s.lits[c][1])] \in 0 .. NAssigns(s) - 1
    BY <2>3, <2>4, OnTrail DEF At
  <2>6. s.trailPos[Var(s.lits[c][1])] < NAssigns(s)
    BY <1>4, <2>5
  <2>7. QED
    BY <1>1, <2>1, <2>5, <2>6 DEF Fixed, Locked, Settled
<1>11. Simplified(t)
  BY <1>1, <1>2, <1>4, <1>10 DEF Simplified
<1>12. Coherent(t)
  BY <1>5, <1>6, <1>7, <1>8, <1>9, <1>11 DEF Coherent
<1>13. \A w : Lists(s, w) => Lists(t, w)
  BY <1>2 DEF Lists
<1>14. \A h, late : Watching(s, h, late) => Watching(t, h, late)
  BY <1>1, <1>2, <1>3 DEF Watching, Awake, Guards
<1>15. ASSUME NEW p \in LitsOf(s), Settled(t, Var(p)) PROVE Value(s, p) # Undef
  <2>1. s.assigns[Var(p)] # Undef
    BY <1>1, <1>15 DEF Settled
  <2>2. Vars(s) \subseteq Nat /\ s.assigns \in [Vars(s) -> {True, False, Undef}]
    BY Types
  <2>3. QED
    BY <2>1, <2>2, Values
<1>16. QED
  BY <1>2, <1>10, <1>12, <1>13, <1>14, <1>15

\* The second half of simplifyDB keeps the invariant.
LEMMA DropSatisfiedKeeps ==
  ASSUME NEW s, Sound(s), DecisionLevel(s) = 0, s.qhead = NAssigns(s), Watching(s, s.qhead, {}),
         NEW t, t = DropSatisfied(ClearLists(s, NewlySettled(s)))
  PROVE  /\ Sound(t) /\ Watching(t, t.qhead, {}) /\ t.ok = s.ok /\ DecisionLevel(t) = 0
         /\ t.qhead = NAssigns(t) /\ LitsOf(t) = LitsOf(s) /\ t.rootLevel = s.rootLevel
<1> DEFINE A == NewlySettled(s)
           u == ClearLists(s, A)
           cs == {c \in u.clauses \cup u.learnts : ~Locked(u, c) /\ Satisfied(u, c)}
           v == RemoveAll(u, cs)
<1>1. t = [v EXCEPT !.simpAssigns = NAssigns(u)]
  BY DEF DropSatisfied
<1>2. Coherent(s) /\ Lists(s, s.watches) /\ Covers(s, Places(s.watches)) /\ Unassigned(s) \subseteq s.order
  BY DEF Sound, Listed
<1>3. Shaped(s) /\ NAssigns(s) \in Nat /\ s.simpAssigns \in Nat
  BY <1>2, Types
<1>4. Cleared(s, u, A)
  BY <1>3, ClearListsIs
<1> HIDE DEF u
<1>5. SameButWatches(s, u) /\ u.watches = [p \in DOMAIN s.watches |-> IF Var(p) \in A THEN <<>> ELSE s.watches[p]]
  BY <1>4 DEF Cleared, SameButWatches
<1>6. Notes(s, u)
  <2>1. s.ok \in BOOLEAN /\ s.unitId \in [Vars(s) -> Nat] /\ s.log \in Seq(Range(s.log)) /\ LastId(s) \in Nat
    BY <1>2, Types DEF Coherent, Typed
  <2>2. LastId(u) = LastId(s)
    BY <1>5 DEF SameButWatches, LastId
  <2>3. QED
    BY <1>5, <2>1, <2>2 DEF Notes, SameButWatches, SameTrail
<1>7. Coherent(u) /\ Watching(u, s.qhead, {}) /\ Lists(u, s.watches)
  BY <1>2, <1>6, NotesKeep
<1>8. /\ Vars(u) = Vars(s) /\ LitsOf(u) = LitsOf(s) /\ NAssigns(u) = NAssigns(s)
      /\ DecisionLevel(u) = DecisionLevel(s) /\ Unassigned(u) = Unassigned(s)
      /\ \A p : Value(u, p) = Value(s, p)
      /\ u.lits = s.lits /\ u.qhead = s.qhead /\ u.order = s.order /\ u.ok = s.ok /\ u.rootLevel = s.rootLevel
      /\ u.reason = s.reason /\ u.assigns = s.assigns /\ u.clauses \cup u.learnts = DOMAIN s.lits
  <2>1. SameTrail(s, u)
    BY <1>6 DEF Notes
  <2>2. s.clauses \cup s.learnts = DOMAIN s.lits
    BY <1>2 DEF Coherent, Stored
  <2>3. QED
    BY <1>5, <2>1, <2>2, SameTrailIs DEF SameButWatches
<1>9. /\ \A p \in LitsOf(s) : s.watches[p] \in Seq(Nat) /\ Places(s.watches)[p] = Range(s.watches[p])
      /\ s.watches \in [LitsOf(s) -> Seq(Nat)]
  BY <1>2 DEF Lists, Places
<1>10. \A p \in LitsOf(s) : u.watches[p] = IF Var(p) \in A THEN <<>> ELSE s.watches[p]
  BY <1>5, <1>9
<1>11. \A p \in LitsOf(s) : Var(p) \in A => Range(u.watches[p]) = {}
  BY <1>10 DEF Range
<1>12. Lists(u, u.watches)
  <2>1. u.watches \in [LitsOf(s) -> Seq(Nat)]
    BY <1>5, <1>9
  <2>2. \A p \in LitsOf(s) : \A i, j \in DOMAIN u.watches[p] : u.watches[p][i] = u.watches[p][j] => i = j
    <3>1. TAKE p \in LitsOf(s)
    <3>2. CASE Var(p) \in A
      BY <1>10, <3>2
    <3>3. CASE Var(p) \notin A
      BY <1>2, <1>10, <3>3 DEF Lists
    <3>4. QED
      BY <3>2, <3>3
  <2>3. QED
    BY <1>8, <2>1, <2>2 DEF Lists
<1>13. \A x \in A : x \in Vars(s) /\ s.assigns[x] # Undef
  <2>1. SUFFICES ASSUME NEW i \in s.simpAssigns + 1 .. NAssigns(s)
                 PROVE  Var(s.trail[i]) \in Vars(s) /\ s.assigns[Var(s.trail[i])] # Undef
    BY DEF NewlySettled
  <2>2. i \in 1 .. NAssigns(s)
    BY <1>3
  <2>3. s.trail[i] \in LitsOf(s) /\ Value(s, s.trail[i]) = True
    BY <1>2, <2>2, Types DEF Coherent, Trailed
  <2>4. Vars(s) \subseteq Nat /\ s.assigns \in [Vars(s) -> {True, False, Undef}]
    BY <1>2, Types
  <2>5. QED
    BY <2>3, <2>4, Values DEF LitsOf
<1>14. \A x \in Vars(s) : s.assigns[x] # Undef => x \in A \/ Settled(s, x)
  <2>1. SUFFICES ASSUME NEW x \in Vars(s), s.assigns[x] # Undef, ~Settled(s, x) PROVE x \in A
    OBVIOUS
  <2>2. s.trailPos[x] \in 0 .. NAssigns(s) - 1 /\ Var(s.trail[s.trailPos[x] + 1]) = x
    BY <1>2, <2>1 DEF Coherent, Trailed
  <2>3. ~(s.trailPos[x] < s.simpAssigns)
    BY <2>1 DEF Settled
  <2>4. s.trailPos[x] + 1 \in s.simpAssigns + 1 .. NAssigns(s)
    BY <1>3, <2>2, <2>3
  <2>5. QED
    BY <2>2, <2>4 DEF NewlySettled
<1> HIDE DEF A
<1>15. \A p \in LitsOf(s) : Value(s, p) # Undef => Range(u.watches[p]) = {}
  <2>1. SUFFICES ASSUME NEW p \in LitsOf(s), Value(s, p) # Undef PROVE Range(u.watches[p]) = {}
    OBVIOUS
  <2>2. Var(p) \in Vars(s) /\ s.assigns[Var(p)] # Undef
    BY <1>2, <2>1, OnTrail DEF LitsOf
  <2>3. CASE Var(p) \in A
    BY <1>11, <2>3
  <2>4. CASE Var(p) \notin A
    <3>1. Settled(s, Var(p))
      BY <1>14, <2>2, <2>4
    <3>2. QED
      BY <1>2, <1>9, <1>10, <2>4, <3>1 DEF Covers
  <2>5. QED
    BY <2>3, <2>4
<1>16. /\ \A p \in LitsOf(s) : \A c \in Range(s.watches[p]) :
            c \in DOMAIN s.lits /\ Neg(p) \in {s.lits[c][1], s.lits[c][2]}
       /\ \A c \in DOMAIN s.lits : Fixed(s, c) \/ \A i \in {1, 2} : c \in Places(s.watches)[Neg(s.lits[c][i])]
  BY <1>2, <1>9 DEF Covers
<1>17. \A p \in LitsOf(s) : \A c \in Range(u.watches[p]) : c \in Range(s.watches[p])
  BY <1>10, <1>11
<1>18. ASSUME NEW c \in DOMAIN s.lits, ~Fixed(s, c), NEW i \in {1, 2}, Var(s.lits[c][i]) \notin A
       PROVE  c \in Range(u.watches[Neg(s.lits[c][i])])
  <2>1. s.lits[c][i] \in LitsOf(s)
    BY <1>2, LitsOfClause
  <2>2. Neg(s.lits[c][i]) \in LitsOf(s) /\ Var(Neg(s.lits[c][i])) = Var(s.lits[c][i])
    BY <1>2, <2>1, Types
  <2>3. c \in Range(s.watches[Neg(s.lits[c][i])])
    BY <1>9, <1>16, <1>18, <2>2
  <2>4. QED
    BY <1>10, <1>18, <2>2, <2>3
<1>19. \A c \in cs : c \in DOMAIN s.lits /\ ~Locked(s, c) /\ ~Locked(u, c)
  BY <1>8 DEF Locked
<1>20. ASSUME NEW c \in cs PROVE Filed(u, c)
  <2>1. c \in DOMAIN s.lits /\ ~Fixed(s, c)
    BY <1>19 DEF Fixed
  <2>2. s.lits[c][1] \in LitsOf(s) /\ s.lits[c][2] \in LitsOf(s) /\ Var(s.lits[c][1]) # Var(s.lits[c][2])
    BY <1>2, <2>1, LitsOfClause
  <2>3. \A i \in {1, 2} : \/ c \in Range(u.watches[Neg(s.lits[c][i])])
                          \/ Range(u.watches[Neg(s.lits[c][i])]) = {}
    <3>1. TAKE i \in {1, 2}
    <3>2. CASE Var(s.lits[c][i]) \in A
      <4>1. s.lits[c][i] \in LitsOf(s)
        BY <2>2
      <4>2. Neg(s.lits[c][i]) \in LitsOf(s) /\ Var(Neg(s.lits[c][i])) = Var(s.lits[c][i])
        BY <1>2, <4>1, Types
      <4>3. QED
        BY <1>11, <3>2, <4>2
    <3>3. CASE Var(s.lits[c][i]) \notin A
      BY <1>18, <2>1, <3>3
    <3>4. QED
      BY <3>2, <3>3
  <2>4. \A p \in LitsOf(s) : c \in Range(u.watches[p]) => Neg(p) \in {s.lits[c][1], s.lits[c][2]}
    BY <1>16, <1>17
  <2>5. QED
    BY <1>8, <2>1, <2>2, <2>3, <2>4 DEF Filed
<1>21. Drops(u, v, cs)
  <2>1. Shaped(u) /\ Vars(u) \subseteq Nat /\ LastId(u) \in Nat /\ Stored(u)
    BY <1>7, Types DEF Coherent
  <2> HIDE DEF cs
  <2>2. QED
    BY <1>12, <1>20, <2>1, RemoveAllIs
<1>22. \A c \in DOMAIN s.lits : Satisfied(u, c) /\ ~Locked(u, c) => c \in cs
  BY <1>8
<1>23. \A c \in DOMAIN s.lits : c \in cs \/ Locked(u, c) \/ \A i \in DOMAIN s.lits[c] : Value(s, s.lits[c][i]) # True
  <2>1. SUFFICES ASSUME NEW c \in DOMAIN s.lits, c \notin cs, ~Locked(u, c), NEW i \in DOMAIN s.lits[c]
                 PROVE  Value(s, s.lits[c][i]) # True
    OBVIOUS
  <2>2. ~Satisfied(u, c)
    BY <1>22, <2>1
  <2>3. s.lits[c][i] \in Range(s.lits[c])
    BY DEF Range
  <2>4. QED
    BY <1>8, <2>2, <2>3 DEF Satisfied
<1> HIDE DEF cs, v
<1>24. /\ Coherent(v) /\ DOMAIN v.lits = DOMAIN s.lits \ cs /\ Lists(v, v.watches)
       /\ \A e \in DOMAIN v.lits : v.lits[e] = s.lits[e]
       /\ Watching(v, s.qhead, {})
  <2>1. \A c \in cs : c \in DOMAIN u.lits /\ ~Locked(u, c)
    BY <1>8, <1>19
  <2>2. /\ Coherent(v) /\ DOMAIN v.lits = DOMAIN u.lits \ cs /\ Lists(v, v.watches)
        /\ \A e \in DOMAIN v.lits : v.lits[e] = u.lits[e]
        /\ \A h, late : Watching(u, h, late) => Watching(v, h, late)
    BY <1>7, <1>21, <2>1, DropsKeeps
  <2>3. u.lits = s.lits /\ Watching(u, s.qhead, {})
    BY <1>7, <1>8
  <2>4. QED
    BY <2>2, <2>3
<1>25. /\ LitsOf(v) = LitsOf(s) /\ NAssigns(v) = NAssigns(s) /\ DecisionLevel(v) = 0
       /\ Unassigned(v) = Unassigned(s) /\ \A p : Value(v, p) = Value(s, p)
       /\ v.qhead = s.qhead /\ v.order = s.order /\ v.ok = s.ok /\ v.reason = s.reason /\ v.rootLevel = s.rootLevel
       /\ \A p \in LitsOf(s) : Range(v.watches[p]) = Range(u.watches[p]) \ cs
  BY <1>8, <1>21, SameTrailIs DEF Drops, SameTrail
<1>26. Simplifies(v, t, NAssigns(v))
  <2>1. Shaped(v) /\ t = [v EXCEPT !.simpAssigns = NAssigns(v)]
    BY <1>1, <1>8, <1>21, <1>25 DEF Drops
  <2>2. QED
    BY <2>1, SimplifiesIs
<1>27. \A c \in DOMAIN v.lits : \A i \in DOMAIN v.lits[c] : Value(v, v.lits[c][i]) = True => Locked(v, c)
  <2>1. TAKE c \in DOMAIN v.lits
  <2>2. c \in DOMAIN s.lits /\ c \notin cs /\ v.lits[c] = s.lits[c]
    BY <1>24
  <2>3. Locked(u, c) => Locked(v, c)
    BY <1>8, <1>25, <2>2 DEF Locked
  <2>4. QED
    BY <1>23, <1>25, <2>2, <2>3
<1>28. /\ Coherent(t) /\ DecisionLevel(t) = 0 /\ LitsOf(t) = LitsOf(s) /\ NAssigns(t) = NAssigns(s)
       /\ Unassigned(t) = Unassigned(s) /\ \A p : Value(t, p) = Value(s, p)
       /\ \A p \in LitsOf(s) : Settled(t, Var(p)) => Value(s, p) # Undef
       /\ \A c \in DOMAIN v.lits : \A i \in DOMAIN v.lits[c] : Value(v, v.lits[c][i]) = True => Fixed(t, c)
       /\ Lists(t, v.watches) /\ Watching(t, s.qhead, {})
  BY <1>24, <1>25, <1>26, <1>27, SimplifiesKeeps
<1>29. /\ t.watches = v.watches /\ t.lits = v.lits /\ t.qhead = s.qhead /\ t.order = s.order /\ t.ok = s.ok
       /\ t.rootLevel = s.rootLevel
  BY <1>25, <1>26 DEF Simplifies
<1>30. Covers(t, Places(t.watches))
  <2>1. \A p \in LitsOf(s) : Places(t.watches)[p] = Range(u.watches[p]) \ cs
    <3>1. v.watches \in [LitsOf(s) -> Seq(Nat)]
      BY <1>28 DEF Lists
    <3>2. \A p \in LitsOf(s) : Places(t.watches)[p] = Range(v.watches[p])
      BY <1>29, <3>1 DEF Places
    <3>3. QED
      BY <1>25, <3>2
  <2>2. \A p \in LitsOf(t) : \A c \in Places(t.watches)[p] :
          c \in DOMAIN t.lits /\ Neg(p) \in {t.lits[c][1], t.lits[c][2]}
    BY <1>16, <1>17, <1>24, <1>28, <1>29, <2>1
  <2>3. \A p \in LitsOf(t) : Settled(t, Var(p)) => Places(t.watches)[p] = {}
    BY <1>15, <1>28, <2>1
  <2>4. ASSUME NEW c \in DOMAIN t.lits, ~Fixed(t, c), NEW i \in {1, 2}
        PROVE  c \in Places(t.watches)[Neg(t.lits[c][i])]
    <3>1. c \in DOMAIN s.lits /\ c \notin cs /\ t.lits[c] = s.lits[c] /\ v.lits[c] = s.lits[c] /\ c \in DOMAIN v.lits
      BY <1>24, <1>29
    <3>2. \A j \in DOMAIN s.lits[c] : Value(s, s.lits[c][j]) # True
      BY <1>25, <1>28, <2>4, <3>1
    <3>3. /\ s.lits[c][1] \in LitsOf(s) /\ s.lits[c][2] \in LitsOf(s) /\ 1 \in DOMAIN s.lits[c] /\ 2 \in DOMAIN s.lits[c]
      BY <1>2, <3>1, LitsOfClause
    <3>4. ~Fixed(s, c)
      <4>1. SUFFICES ASSUME Locked(s, c) PROVE FALSE
        BY DEF Fixed
      <4>2. Value(s, s.lits[c][1]) = True
        BY <1>2, <3>1, <4>1, LockedIs DEF Implies
      <4>3. QED
        BY <3>2, <3>3, <4>2
    <3>5. Value(s, s.lits[c][i]) = Undef
      <4>1. s.lits[c][i] \in LitsOf(s) /\ 3 - i \in {1, 2} /\ i \in DOMAIN s.lits[c]
        BY <3>3
      <4>2. Value(s, s.lits[c][3 - i]) # True
        BY <3>2, <3>3, <4>1
      <4>3. Value(s, s.lits[c][i]) \in {True, False, Undef}
        <5>1. Vars(s) \subseteq Nat /\ s.assigns \in [Vars(s) -> {True, False, Undef}]
          BY <1>2, Types
        <5>2. QED
          BY <4>1, <5>1, Values
      <4>4. Value(s, s.lits[c][i]) # False
        <5>1. SUFFICES ASSUME IsFalse(s, s.lits[c][i]) PROVE FALSE
          BY DEF IsFalse
        <5>2. Value(s, s.lits[c][i]) # Undef
          BY <5>1 DEF IsFalse, False, Undef
        <5>3. At(s, s.lits[c][i]) \in 0 .. NAssigns(s) - 1
          BY <1>2, <4>1, <5>2, OnTrail
        <5>4. At(s, s.lits[c][i]) < s.qhead
          BY <1>3, <5>3
        <5>5. Guards(s, s.lits[c][3 - i], s.lits[c][i])
          BY <3>1, <5>1, <5>4 DEF Watching, Awake
        <5>6. QED
          BY <4>2, <5>5 DEF Guards
      <4>5. QED
        BY <3>2, <4>1, <4>3, <4>4
    <3>6. Var(s.lits[c][i]) \notin A
      <4>1. s.lits[c][i] \in LitsOf(s) /\ Vars(s) \subseteq Nat /\ s.assigns \in [Vars(s) -> {True, False, Undef}]
        BY <1>2, <3>3, Types
      <4>2. s.assigns[Var(s.lits[c][i])] = Undef
        BY <3>5, <4>1, Values
      <4>3. QED
        BY <1>13, <4>2
    <3>7. c \in Range(u.watches[Neg(s.lits[c][i])])
      BY <1>18, <3>1, <3>4, <3>6
    <3>8. Neg(s.lits[c][i]) \in LitsOf(s)
      <4>1. s.lits[c][i] \in LitsOf(s)
        BY <3>3
      <4>2. QED
        BY <1>2, <4>1, Types
    <3>9. QED
      BY <2>1, <3>1, <3>7, <3>8
  <2>5. QED
    BY <2>2, <2>3, <2>4 DEF Covers
<1>31. Sound(t)
  BY <1>2, <1>28, <1>29, <1>30 DEF Sound, Listed
<1>32. QED
  BY <1>28, <1>29, <1>31

-----------------------------------------------------------------------------
(***************************************************************************)
(* A new variable.                                                         *)
(***************************************************************************)

\* What was there stays as it was; the new variable, if it is new, has no value.
LEMMA WidenedIs ==
  ASSUME NEW s, Coherent(s), NEW v \in Nat, NEW t, Widened(s, t, v)
  PROVE  /\ Vars(t) = Vars(s) \cup {v} /\ LitsOf(s) \subseteq LitsOf(t)
         /\ NAssigns(t) = NAssigns(s) /\ DecisionLevel(t) = DecisionLevel(s) /\ LastId(t) = LastId(s)
         /\ \A x \in Vars(s) : /\ t.assigns[x] = s.assigns[x] /\ t.reason[x] = s.reason[x]
                               /\ t.level[x] = s.level[x] /\ t.trailPos[x] = s.trailPos[x]
         /\ v \notin Vars(s) => t.assigns[v] = Undef /\ t.reason[v] = NoClause
         /\ \A p \in LitsOf(s) : Value(t, p) = Value(s, p) /\ (IsFalse(t, p) <=> IsFalse(s, p)) /\ At(t, p) = At(s, p)
         /\ t.assigns \in [Vars(t) -> {True, False, Undef}] /\ t.reason \in [Vars(t) -> Nat]
         /\ t.unitId \in [Vars(t) -> Nat] /\ t.level \in [Vars(t) -> Int] /\ t.trailPos \in [Vars(t) -> Int]
<1>1. /\ s.assigns \in [Vars(s) -> {True, False, Undef}] /\ s.reason \in [Vars(s) -> Nat]
      /\ s.unitId \in [Vars(s) -> Nat] /\ s.level \in [Vars(s) -> Int] /\ s.trailPos \in [Vars(s) -> Int]
  BY DEF Coherent, Typed
<1>2. /\ t.assigns = With(s.assigns, v, Undef) /\ t.reason = With(s.reason, v, NoClause)
      /\ t.level = With(s.level, v, -1) /\ t.trailPos = With(s.trailPos, v, -1)
      /\ t.unitId = With(s.unitId, v, NoClause)
  BY DEF Widened
<1>3. Vars(t) = Vars(s) \cup {v}
  BY <1>2 DEF Vars, With
<1>4. /\ t.assigns \in [Vars(t) -> {True, False, Undef}]
      /\ \A x \in Vars(s) : t.assigns[x] = s.assigns[x]
      /\ v \notin Vars(s) => t.assigns[v] = Undef
  BY <1>1, <1>2, <1>3 DEF With
<1>5. /\ t.reason \in [Vars(t) -> Nat] /\ \A x \in Vars(s) : t.reason[x] = s.reason[x]
      /\ v \notin Vars(s) => t.reason[v] = NoClause
  BY <1>1, <1>2, <1>3 DEF With, NoClause
<1>6. t.unitId \in [Vars(t) -> Nat]
  BY <1>1, <1>2, <1>3 DEF With, NoClause
<1>7. t.level \in [Vars(t) -> Int] /\ \A x \in Vars(s) : t.level[x] = s.level[x]
  BY <1>1, <1>2, <1>3 DEF With
<1>8. t.trailPos \in [Vars(t) -> Int] /\ \A x \in Vars(s) : t.trailPos[x] = s.trailPos[x]
  BY <1>1, <1>2, <1>3 DEF With
<1>9. LitsOf(s) \subseteq LitsOf(t)
  BY <1>3 DEF LitsOf
<1>10. NAssigns(t) = NAssigns(s) /\ DecisionLevel(t) = DecisionLevel(s) /\ LastId(t) = LastId(s)
  BY DEF Widened, NAssigns, DecisionLevel, LastId
<1>11. \A p \in LitsOf(s) : Value(t, p) = Value(s, p) /\ (IsFalse(t, p) <=> IsFalse(s, p)) /\ At(t, p) = At(s, p)
  <2>1. \A p \in LitsOf(s) : Value(t, p) = Value(s, p)
    BY <1>4 DEF Value, LitsOf
  <2>2. QED
    BY <1>8, <2>1 DEF IsFalse, At, LitsOf
<1>12. QED
  BY <1>3, <1>4, <1>5, <1>6, <1>7, <1>8, <1>9, <1>10, <1>11

\* newVar keeps the invariant.
LEMMA NewVarKeeps ==
  ASSUME NEW s, Sound(s), NEW t, t = NewVar(s)
  PROVE  /\ Sound(t) /\ \A h, late : Watching(s, h, late) => Watching(t, h, late)
         /\ DecisionLevel(t) = DecisionLevel(s) /\ t.ok = s.ok /\ t.qhead = s.qhead
<1> DEFINE v == Cardinality(Vars(s))
<1>1. Coherent(s) /\ Lists(s, s.watches) /\ Covers(s, Places(s.watches)) /\ Unassigned(s) \subseteq s.order
  BY DEF Sound, Listed
<1>2. Shaped(s) /\ v \in Nat /\ IsFiniteSet(Vars(s)) /\ Vars(s) \subseteq Nat
  BY <1>1, Types, FS_CardinalityType
<1>3. Widened(s, t, v)
  BY <1>2, NewVarIs
<1> HIDE DEF v
<1>4. /\ Vars(t) = Vars(s) \cup {v} /\ LitsOf(s) \subseteq LitsOf(t)
      /\ NAssigns(t) = NAssigns(s) /\ DecisionLevel(t) = DecisionLevel(s) /\ LastId(t) = LastId(s)
      /\ \A x \in Vars(s) : /\ t.assigns[x] = s.assigns[x] /\ t.reason[x] = s.reason[x]
                            /\ t.level[x] = s.level[x] /\ t.trailPos[x] = s.trailPos[x]
      /\ v \notin Vars(s) => t.assigns[v] = Undef /\ t.reason[v] = NoClause
      /\ \A p \in LitsOf(s) : Value(t, p) = Value(s, p) /\ (IsFalse(t, p) <=> IsFalse(s, p)) /\ At(t, p) = At(s, p)
      /\ t.assigns \in [Vars(t) -> {True, False, Undef}] /\ t.reason \in [Vars(t) -> Nat]
      /\ t.unitId \in [Vars(t) -> Nat] /\ t.level \in [Vars(t) -> Int] /\ t.trailPos \in [Vars(t) -> Int]
  BY <1>1, <1>2, <1>3, WidenedIs
<1>5. /\ Shaped(t) /\ t.ok = s.ok /\ t.lits = s.lits /\ t.clauses = s.clauses
      /\ t.learnts = s.learnts /\ t.trail = s.trail /\ t.trailLim = s.trailLim
      /\ t.rootLevel = s.rootLevel /\ t.qhead = s.qhead /\ t.simpAssigns = s.simpAssigns
      /\ t.log = s.log /\ t.order = s.order \cup {v}
  BY <1>3 DEF Widened
<1>6. \A x \in Vars(t) : t.assigns[x] # Undef \/ t.reason[x] # NoClause => x \in Vars(s)
  <2>1. SUFFICES ASSUME NEW x \in Vars(t), x \notin Vars(s)
                 PROVE  t.assigns[x] = Undef /\ t.reason[x] = NoClause
    BY <1>2
  <2>2. x = v
    BY <1>4, <2>1
  <2>3. QED
    BY <1>4, <2>1, <2>2
<1>7. Typed(t)
  <2>1. /\ s.ok \in BOOLEAN /\ s.trail \in Seq(LitsOf(s)) /\ s.trailLim \in Seq(Nat)
        /\ s.qhead \in Nat /\ s.rootLevel \in Nat /\ s.simpAssigns \in Nat /\ s.log \in Seq(Range(s.log))
    BY <1>1 DEF Coherent, Typed
  <2>2. IsFiniteSet(Vars(t)) /\ Vars(t) \subseteq Nat
    BY <1>2, <1>4, FS_AddElement
  <2>3. t.trail \in Seq(LitsOf(t))
    BY <1>4, <1>5, <2>1
  <2>4. QED
    BY <1>4, <1>5, <2>1, <2>2, <2>3 DEF Typed
<1>8. Stored(t)
  <2>1. \A ls : IsClause(s, ls) => IsClause(t, ls)
    BY <1>4 DEF IsClause
  <2>2. QED
    BY <1>1, <1>4, <1>5, <2>1 DEF Coherent, Stored
<1>9. \A i \in 1 .. NAssigns(s) : s.trail[i] \in LitsOf(s)
  BY <1>1, Types
<1>10. Trailed(t)
  BY <1>1, <1>4, <1>5, <1>6, <1>9 DEF Coherent, Trailed
<1>11. Levelled(t)
  <2>1. \A x \in Vars(s) : LevelFits(s, x) => LevelFits(t, x)
    BY <1>4, <1>5 DEF LevelFits
  <2>2. QED
    BY <1>1, <1>4, <1>6, <2>1 DEF Coherent, Levelled
<1>12. ASSUME NEW c \in DOMAIN s.lits, NEW x \in Vars(s)
       PROVE  Implies(t, s.lits[c], x) <=> Implies(s, s.lits[c], x)
  <2>1. Len(s.lits[c]) \in Nat /\ \A i \in 1 .. Len(s.lits[c]) : s.lits[c][i] \in LitsOf(s) /\ Var(s.lits[c][i]) \in Vars(s)
    BY <1>1, LitsOfClause, Types
  <2>2. s.lits[c][1] \in LitsOf(s)
    BY <1>1, LitsOfClause
  <2>3. \A i \in 2 .. Len(s.lits[c]) : s.lits[c][i] \in LitsOf(s) /\ Var(s.lits[c][i]) \in Vars(s)
    BY <2>1
  <2>4. QED
    BY <1>4, <1>5, <2>2, <2>3 DEF Implies
<1>13. Reasoned(t)
  <2>1. ASSUME NEW x \in Vars(t), t.reason[x] # NoClause
        PROVE  t.reason[x] \in DOMAIN t.lits /\ Implies(t, t.lits[t.reason[x]], x)
    <3>1. x \in Vars(s) /\ s.reason[x] = t.reason[x] /\ s.reason[x] # NoClause
      BY <1>4, <1>6, <2>1
    <3>2. s.reason[x] \in DOMAIN s.lits /\ Implies(s, s.lits[s.reason[x]], x)
      BY <1>1, <3>1, ReasonIs
    <3>3. QED
      BY <1>5, <1>12, <3>1, <3>2
  <2>2. ASSUME NEW x \in Vars(t), t.assigns[x] # Undef, t.reason[x] = NoClause
        PROVE  t.level[x] = 0 \/ t.trailPos[x] = t.trailLim[t.level[x]]
    BY <1>1, <1>4, <1>5, <1>6, <2>2 DEF Coherent, Reasoned
  <2>3. QED
    BY <2>1, <2>2 DEF Reasoned
<1>14. \A x \in Vars(t) : Settled(t, x) => x \in Vars(s) /\ Settled(s, x)
  BY <1>4, <1>5, <1>6 DEF Settled
<1>15. \A c \in DOMAIN s.lits : Fixed(s, c) <=> Fixed(t, c)
  <2>1. \A c \in DOMAIN s.lits : Var(s.lits[c][1]) \in Vars(s)
    BY <1>1, LitsOfClause, Types
  <2>2. QED
    BY <1>4, <1>5, <2>1 DEF Fixed, Locked, Settled
<1>16. Simplified(t)
  <2>1. ASSUME NEW c \in DOMAIN s.lits, NEW i \in DOMAIN s.lits[c], Value(t, s.lits[c][i]) = True,
               Settled(t, Var(s.lits[c][i]))
        PROVE  Fixed(t, c)
    <3>1. s.lits[c][i] \in LitsOf(s)
      BY <1>1, LitsOfClause
    <3>2. Var(s.lits[c][i]) \in Vars(s) /\ Var(s.lits[c][i]) \in Vars(t)
      BY <1>1, <1>4, <3>1, Types
    <3>3. Value(s, s.lits[c][i]) = True /\ Settled(s, Var(s.lits[c][i]))
      BY <1>4, <1>14, <2>1, <3>1, <3>2
    <3>4. QED
      BY <1>1, <1>15, <3>3 DEF Coherent, Simplified
  <2>2. QED
    BY <1>1, <1>4, <1>5, <2>1 DEF Coherent, Simplified
<1>17. Coherent(t)
  BY <1>7, <1>8, <1>10, <1>11, <1>13, <1>16 DEF Coherent
<1>18. PosLit(v) \in Nat /\ Neg(PosLit(v)) \in Nat /\ Var(PosLit(v)) = v /\ Var(Neg(PosLit(v))) = v
  BY <1>2, LiteralOf, Literal
<1>19. LitsOf(t) = LitsOf(s) \cup {PosLit(v), Neg(PosLit(v))}
  <2>1. \A p \in Nat : Var(p) = v => p \in {PosLit(v), Neg(PosLit(v))}
    <3>1. TAKE p \in Nat
    <3>2. Var(p) = v => p = PosLit(v) \/ p = Neg(PosLit(v))
      BY <1>18, Literal, SameVar
    <3>3. QED
      BY <3>2
  <2>2. QED
    BY <1>4, <1>18, <2>1 DEF LitsOf
<1>20. s.watches \in [LitsOf(s) -> Seq(Nat)]
  BY <1>1 DEF Lists
<1>21. /\ DOMAIN t.watches = LitsOf(t)
       /\ \A p \in LitsOf(t) : t.watches[p] = IF p \in LitsOf(s) THEN s.watches[p] ELSE <<>>
  <2>1. t.watches = With(With(s.watches, PosLit(v), <<>>), Neg(PosLit(v)), <<>>)
    BY <1>3 DEF Widened
  <2>2. QED
    BY <1>19, <1>20, <2>1 DEF With
<1>22. Lists(t, t.watches)
  <2>1. \A p \in LitsOf(t) : t.watches[p] \in Seq(Nat)
    <3>1. TAKE p \in LitsOf(t)
    <3>2. CASE p \in LitsOf(s)
      BY <1>20, <1>21, <3>2
    <3>3. CASE p \notin LitsOf(s)
      <4>1. t.watches[p] = <<>>
        BY <1>21, <3>3
      <4>2. <<>> \in Seq(Nat)
        OBVIOUS
      <4>3. QED
        BY <4>1, <4>2, Zenon
    <3>4. QED
      BY <3>2, <3>3
  <2>2. t.watches \in [LitsOf(t) -> Seq(Nat)]
    <3>1. t.watches = [p \in LitsOf(t) |-> t.watches[p]]
      <4>1. t.watches = With(With(s.watches, PosLit(v), <<>>), Neg(PosLit(v)), <<>>)
        BY <1>3 DEF Widened
      <4>2. QED
        BY <1>19, <1>20, <4>1 DEF With
    <3>2. QED
      BY <2>1, <3>1
  <2>3. \A p \in LitsOf(t) : \A i, j \in DOMAIN t.watches[p] : t.watches[p][i] = t.watches[p][j] => i = j
    <3>1. TAKE p \in LitsOf(t)
    <3>2. CASE p \in LitsOf(s)
      BY <1>1, <1>21, <3>2 DEF Lists
    <3>3. CASE p \notin LitsOf(s)
      BY <1>21, <3>3
    <3>4. QED
      BY <3>2, <3>3
  <2>4. QED
    BY <2>2, <2>3 DEF Lists
<1>23. Covers(t, Places(t.watches))
  <2>1. \A p \in LitsOf(t) : Places(t.watches)[p] = IF p \in LitsOf(s) THEN Places(s.watches)[p] ELSE {}
    <3>1. \A p \in LitsOf(t) : Places(t.watches)[p] = Range(t.watches[p])
      BY <1>21 DEF Places
    <3>2. \A p \in LitsOf(s) : Places(s.watches)[p] = Range(s.watches[p])
      BY <1>20 DEF Places
    <3>3. Range(<<>>) = {}
      BY DEF Range
    <3>4. QED
      BY <1>21, <3>1, <3>2, <3>3
  <2>2. \A p \in LitsOf(t) : \A c \in Places(t.watches)[p] :
          c \in DOMAIN t.lits /\ Neg(p) \in {t.lits[c][1], t.lits[c][2]}
    BY <1>1, <1>5, <2>1 DEF Covers
  <2>3. \A p \in LitsOf(t) : Settled(t, Var(p)) => Places(t.watches)[p] = {}
    <3>1. \A p \in LitsOf(t) : Var(p) \in Vars(t)
      BY DEF LitsOf
    <3>2. QED
      BY <1>1, <1>14, <2>1, <3>1 DEF Covers
  <2>4. \A c \in DOMAIN t.lits : Fixed(t, c) \/ \A i \in {1, 2} : c \in Places(t.watches)[Neg(t.lits[c][i])]
    <3>1. TAKE c \in DOMAIN t.lits
    <3>2. s.lits[c][1] \in LitsOf(s) /\ s.lits[c][2] \in LitsOf(s)
      BY <1>1, <1>5, LitsOfClause
    <3>3. Neg(s.lits[c][1]) \in LitsOf(s) /\ Neg(s.lits[c][2]) \in LitsOf(s)
      BY <1>1, <3>2, Types
    <3>4. Fixed(s, c) \/ \A i \in {1, 2} : c \in Places(s.watches)[Neg(s.lits[c][i])]
      BY <1>1, <1>5 DEF Covers
    <3>5. QED
      BY <1>4, <1>5, <1>15, <2>1, <3>3, <3>4
  <2>5. QED
    BY <2>2, <2>3, <2>4 DEF Covers
<1>24. Unassigned(t) \subseteq t.order
  BY <1>1, <1>4, <1>5 DEF Unassigned
<1>25. ASSUME NEW h, NEW late, Watching(s, h, late) PROVE Watching(t, h, late)
  <2>1. SUFFICES ASSUME NEW c \in DOMAIN s.lits PROVE Awake(t, c, h, late)
    BY <1>5 DEF Watching
  <2>2. s.lits[c][1] \in LitsOf(s) /\ s.lits[c][2] \in LitsOf(s)
    BY <1>1, LitsOfClause
  <2>3. \A p, q \in LitsOf(s) : Guards(s, p, q) => Guards(t, p, q)
    BY <1>4, <1>5 DEF Guards, Outlives
  <2>4. Awake(s, c, h, late)
    BY <1>25 DEF Watching
  <2>5. QED
    BY <1>4, <1>5, <2>2, <2>3, <2>4 DEF Awake
<1>26. QED
  BY <1>4, <1>5, <1>17, <1>22, <1>23, <1>24, <1>25 DEF Sound, Listed

-----------------------------------------------------------------------------
(***************************************************************************)
(* Steps that change single fields.                                        *)
(***************************************************************************)
SameBut(s, t, F) == Shaped(t) /\ \A f \in Fields \ F : t[f] = s[f]

\* The fields a trail and a store are made of.
Fixtures == {"assigns", "trail", "trailLim", "level", "trailPos", "reason", "rootLevel", "simpAssigns",
             "lits", "clauses", "learnts"}

\* A solver changed in other fields has the same trail and clauses.
LEMMA SameButIs ==
  ASSUME NEW s, NEW t, NEW F, SameBut(s, t, F), F \cap Fixtures = {}
  PROVE  SameTrail(s, t) /\ t.lits = s.lits /\ t.clauses = s.clauses /\ t.learnts = s.learnts /\ Shaped(t)
<1>1. \A f \in Fixtures : f \in Fields /\ f \notin F
  BY SMT DEF Fixtures, Fields
<1>2. \A f \in Fixtures : t[f] = s[f]
  BY <1>1 DEF SameBut
<1>3. QED
  BY <1>2, SMT DEF Fixtures, SameTrail, SameBut

\* What moving the queue changes.
LEMMA QheadIs ==
  ASSUME NEW s, Shaped(s), NEW n, NEW t, t = [s EXCEPT !.qhead = n]
  PROVE  SameBut(s, t, {"qhead"}) /\ t.qhead = n
BY SMT DEF Shaped, Fields, SameBut

\* A mark in the books is no change of the trail or of the store.
LEMMA SameButNotes ==
  ASSUME NEW s, NEW t, NEW F, SameBut(s, t, F), F \cap Fixtures = {},
         t.qhead = s.qhead \/ t.qhead \in s.qhead .. NAssigns(s),
         t.ok \in BOOLEAN, t.unitId \in [Vars(s) -> Nat],
         t.log \in Seq(Range(t.log)), LastId(t) >= LastId(s)
  PROVE  Notes(s, t)
BY SameButIs DEF Notes

\* The fields that are only noted: they may take any value of their type.
LEMMA OkIs ==
  ASSUME NEW s, Shaped(s), NEW b, NEW t, t = [s EXCEPT !.ok = b]
  PROVE  SameBut(s, t, {"ok"}) /\ t.ok = b
BY SMT DEF Shaped, Fields, SameBut

\* What noting a model changes.
LEMMA ModelIs ==
  ASSUME NEW s, Shaped(s), NEW m, NEW t, t = [s EXCEPT !.model = m]
  PROVE  SameBut(s, t, {"model"})
BY SMT DEF Shaped, Fields, SameBut

\* What changing the heap changes.
LEMMA OrderIs ==
  ASSUME NEW s, Shaped(s), NEW o, NEW t, t = [s EXCEPT !.order = o]
  PROVE  SameBut(s, t, {"order"}) /\ t.order = o
BY SMT DEF Shaped, Fields, SameBut

\* What counting a conflict changes.
LEMMA ConflictsIs ==
  ASSUME NEW s, Shaped(s), NEW t, t = [s EXCEPT !.conflicts = @ + 1]
  PROVE  SameBut(s, t, {"conflicts"})
BY SMT DEF Shaped, Fields, SameBut

\* What noting a final conflict changes.
LEMMA ConflictIs ==
  ASSUME NEW s, Shaped(s), NEW c, NEW id, NEW t, t = [s EXCEPT !.conflict = c, !.conflictId = id]
  PROVE  SameBut(s, t, {"conflict", "conflictId"})
<1> DEFINE u == [s EXCEPT !.conflict = c]
<1>1. SameBut(s, u, {"conflict"})
  BY SMT DEF Shaped, Fields, SameBut
<1>2. t = [u EXCEPT !.conflictId = id]
  OBVIOUS
<1> HIDE DEF u
<1>3. SameBut(u, t, {"conflictId"})
  BY <1>1, <1>2, SMT DEF Shaped, Fields, SameBut
<1>4. QED
  BY <1>1, <1>3 DEF SameBut

\* What setting the root level changes.
LEMMA RootIs ==
  ASSUME NEW s, Shaped(s), NEW n, NEW t, t = [s EXCEPT !.rootLevel = n]
  PROVE  SameBut(s, t, {"rootLevel"}) /\ t.rootLevel = n
BY SMT DEF Shaped, Fields, SameBut

\* What noting a unit clause changes.
LEMMA UnitIs ==
  ASSUME NEW s, Shaped(s), NEW v \in Vars(s), s.unitId \in [Vars(s) -> Nat], NEW id \in Nat,
         NEW t, t = [s EXCEPT !.unitId[v] = id]
  PROVE  SameBut(s, t, {"unitId"}) /\ t.unitId \in [Vars(s) -> Nat] /\ t.unitId[v] = id
BY SMT DEF Shaped, Fields, SameBut

PutBack(s, p, ws) == [s EXCEPT !.watches[p] = ws]

Relisted(s, t, p, ws) ==
    /\ SameBut(s, t, {"watches"}) /\ t.watches \in [LitsOf(s) -> Seq(Nat)] /\ t.watches[p] = ws
    /\ \A q \in LitsOf(s) : q # p => t.watches[q] = s.watches[q]

\* What putting a rebuilt list back changes.
LEMMA RelistIs ==
  ASSUME NEW s, Shaped(s), Lists(s, s.watches), NEW p \in LitsOf(s), NEW ws \in Seq(Nat),
         NEW t, t = PutBack(s, p, ws)
  PROVE  Relisted(s, t, p, ws)
<1> DEFINE w == s.watches
<1>1. SameBut(s, t, {"watches"}) /\ t.watches = [w EXCEPT ![p] = ws]
  BY SMT DEF Shaped, Fields, SameBut, PutBack
<1>2. w \in [LitsOf(s) -> Seq(Nat)]
  BY DEF Lists
<1>3. /\ t.watches \in [LitsOf(s) -> Seq(Nat)] /\ t.watches[p] = ws
      /\ \A q \in LitsOf(s) : q # p => t.watches[q] = w[q]
  <2> HIDE DEF w
  <2>1. QED
    BY <1>1, <1>2
<1>4. QED
  BY <1>1, <1>3 DEF Relisted

\* A clause is written anew.
Written(s, t, c, ls) == SameBut(s, t, {"lits"}) /\ t.lits = [s.lits EXCEPT ![c] = ls]

\* What exchanging the literals of a clause changes.
LEMMA WriteIs ==
  ASSUME NEW s, Shaped(s), NEW c, NEW ls, NEW t, t = [s EXCEPT !.lits[c] = ls]
  PROVE  Written(s, t, c, ls)
BY SMT DEF Shaped, Fields, SameBut, Written

\* A clause that is written anew, and nothing else.
LEMMA WrittenIs ==
  ASSUME NEW s, Coherent(s), NEW t, NEW c, NEW ls, Written(s, t, c, ls)
  PROVE  /\ Rewrites(s, t, c, ls) /\ t.watches = s.watches /\ t.order = s.order /\ t.qhead = s.qhead
         /\ t.ok = s.ok /\ t.unitId = s.unitId /\ t.log = s.log
<1>1. \A f \in (Fixtures \ {"lits"}) \cup {"qhead", "order", "watches", "ok", "unitId", "log"} : f \in Fields /\ f \notin {"lits"}
  BY SMT DEF Fixtures, Fields
<1>2. \A f \in (Fixtures \ {"lits"}) \cup {"qhead", "order", "watches", "ok", "unitId", "log"} : t[f] = s[f]
  BY <1>1 DEF Written, SameBut
<1>3. /\ SameTrail(s, t) /\ t.clauses = s.clauses /\ t.learnts = s.learnts /\ t.qhead = s.qhead
      /\ t.order = s.order /\ t.watches = s.watches /\ t.ok = s.ok /\ t.unitId = s.unitId /\ t.log = s.log
  BY <1>2, SMT DEF Fixtures, SameTrail
<1>4. /\ Shaped(t) /\ t.lits = [s.lits EXCEPT ![c] = ls]
  BY DEF Written, SameBut
<1>5. s.ok \in BOOLEAN /\ s.unitId \in [Vars(s) -> Nat] /\ s.log \in Seq(Range(s.log)) /\ LastId(s) \in Nat /\ LastId(t) = LastId(s)
  BY <1>3, Types DEF Coherent, Typed, LastId
<1>6. QED
  BY <1>3, <1>4, <1>5 DEF Rewrites

-----------------------------------------------------------------------------
(***************************************************************************)
(* The proof is written.                                                   *)
(***************************************************************************)
Logged(s, t) ==
    /\ SameTrail(s, t) /\ t.lits = s.lits /\ t.clauses = s.clauses /\ t.learnts = s.learnts
    /\ t.watches = s.watches /\ t.order = s.order /\ t.qhead = s.qhead /\ t.ok = s.ok
    /\ Shaped(t) /\ t.unitId \in [Vars(s) -> Nat] /\ t.log \in Seq(Range(t.log)) /\ LastId(t) \in Nat
    /\ LastId(t) >= LastId(s)

\* Logging disturbs nothing but the log and the units.
LEMMA LoggedNotes ==
  ASSUME NEW s, Coherent(s), NEW t, Logged(s, t)
  PROVE  /\ Notes(s, t) /\ Coherent(t) /\ t.watches = s.watches /\ t.order = s.order /\ t.qhead = s.qhead
         /\ t.ok = s.ok /\ t.lits = s.lits
<1>1. s.ok \in BOOLEAN
  BY DEF Coherent, Typed
<1>2. Notes(s, t)
  BY <1>1 DEF Notes, Logged
<1>3. QED
  BY <1>2, NotesKeep DEF Logged

\* Logging twice is logging.
LEMMA LoggedTwice ==
  ASSUME NEW s, Coherent(s), NEW t, Logged(s, t), NEW u, Logged(t, u)
  PROVE  Logged(s, u)
<1>1. Vars(t) = Vars(s) /\ LastId(s) \in Nat
  BY SameTrailIs, Types DEF Logged
<1>2. SameTrail(s, u)
  BY DEF Logged, SameTrail
<1>3. QED
  BY <1>1, <1>2 DEF Logged

\* A record is added.
LEMMA LogGrows ==
  ASSUME NEW T, NEW f \in Seq(T), NEW e
  PROVE  Append(f, e) \in Seq(Range(Append(f, e))) /\ Len(Append(f, e)) = Len(f) + 1 /\ Len(f) \in Nat
<1> DEFINE g == Append(f, e)
<1>1. g \in Seq(T \cup {e}) /\ Len(g) = Len(f) + 1 /\ Len(f) \in Nat
  BY RangeAppend, LenProperties
<1> HIDE DEF g
<1>2. DOMAIN g = 1 .. Len(g) /\ Len(g) \in Nat /\ g \in [1 .. Len(g) -> T \cup {e}]
  BY <1>1, LenProperties
<1>3. g \in [1 .. Len(g) -> Range(g)]
  BY <1>2 DEF Range
<1>4. g \in Seq(Range(g))
  <2>1. \A A, h, n : n \in Nat /\ h \in [1 .. n -> A] => h \in Seq(A)
    OBVIOUS
  <2>2. QED
    BY <1>2, <1>3, <2>1
<1>5. QED
  BY <1>1, <1>4 DEF g

\* Ending a chain is logging, and a chain without steps leaves no record.
LEMMA EndChainLogs ==
  ASSUME NEW s, Coherent(s), NEW ch, NEW t, t = EndChain(s, ch)
  PROVE  Logged(s, t) /\ t.unitId = s.unitId /\ LastId(t) = IF ch.vars = <<>> THEN LastId(s) ELSE LastId(s) + 1
<1>1. Shaped(s) /\ s.log \in Seq(Range(s.log)) /\ LastId(s) \in Nat /\ s.unitId \in [Vars(s) -> Nat]
  BY Types DEF Coherent, Typed
<1>2. Chained(s, t, ch)
  BY <1>1, EndChainIs
<1>3. SameTrail(s, t)
  BY <1>2 DEF Chained, SameTrail
<1>4. /\ t.lits = s.lits /\ t.clauses = s.clauses /\ t.learnts = s.learnts /\ t.unitId = s.unitId
      /\ t.watches = s.watches /\ t.order = s.order /\ t.qhead = s.qhead /\ t.ok = s.ok /\ Shaped(t)
  BY <1>2 DEF Chained
<1>5. t.log \in Seq(Range(t.log)) /\ LastId(t) = IF ch.vars = <<>> THEN LastId(s) ELSE LastId(s) + 1
  <2>1. CASE ch.vars = <<>>
    <3>1. t.log = s.log
      BY <1>2, <2>1 DEF Chained
    <3>2. QED
      BY <1>1, <2>1, <3>1 DEF LastId
  <2>2. CASE ch.vars # <<>>
    <3>1. PICK e : t.log = Append(s.log, e)
      BY <1>2, <2>2 DEF Chained
    <3>2. QED
      BY <1>1, <2>2, <3>1, LogGrows DEF LastId
  <2>3. QED
    BY <2>1, <2>2
<1>6. QED
  BY <1>1, <1>3, <1>4, <1>5 DEF Logged

\* The unit clauses by which the literals of ls are resolved away.
ChainFrom(ch, c) ==
    /\ ch.ids \in Seq(Nat) /\ Len(ch.ids) >= 1 /\ ch.ids[1] = c /\ ch.vars \in Seq(Nat)

\* A new chain starts from its clause.
LEMMA ChainIsFrom ==
  ASSUME NEW c \in Nat
  PROVE  ChainFrom(Chain(c), c) /\ Chain(c).vars = <<>>
BY DEF ChainFrom, Chain

\* A chain that resolves units away still starts from its clause.
LEMMA ResolveUnitsIs ==
  ASSUME NEW s, Coherent(s), NEW ch, NEW c \in Nat, ChainFrom(ch, c), NEW ls \in Seq(LitsOf(s))
  PROVE  ChainFrom(ResolveUnits(s, ch, ls), c)
<1>1. s.unitId \in [Vars(s) -> Nat] /\ \A i \in DOMAIN ls : Var(ls[i]) \in Vars(s) /\ Var(ls[i]) \in Nat
  BY Types DEF Coherent, Typed, LitsOf
<1> DEFINE A == [i \in DOMAIN ls |-> s.unitId[Var(ls[i])]]
           B == [i \in DOMAIN ls |-> Var(ls[i])]
<1>2. A \in Seq(Nat) /\ B \in Seq(Nat)
  <2>1. DOMAIN ls = 1 .. Len(ls) /\ Len(ls) \in Nat
    BY LenProperties
  <2>2. A \in [1 .. Len(ls) -> Nat] /\ B \in [1 .. Len(ls) -> Nat]
    BY <1>1, <2>1
  <2> HIDE DEF A, B
  <2>3. \A f : f \in [1 .. Len(ls) -> Nat] => f \in Seq(Nat)
    BY <2>1
  <2>4. QED
    BY <2>2, <2>3
<1>3. ResolveUnits(s, ch, ls).ids = ch.ids \o A /\ ResolveUnits(s, ch, ls).vars = ch.vars \o B
  BY DEF ResolveUnits
<1> HIDE DEF A, B
<1>4. ch.ids \o A \in Seq(Nat) /\ Len(ch.ids \o A) >= 1 /\ (ch.ids \o A)[1] = c /\ ch.vars \o B \in Seq(Nat)
  BY <1>2 DEF ChainFrom
<1>5. QED
  BY <1>3, <1>4 DEF ChainFrom

\* The number of the clause a chain derives.
LEMMA ChainIdIs ==
  ASSUME NEW s, Coherent(s), NEW ch, NEW c \in Nat, ChainFrom(ch, c)
  PROVE  /\ ChainId(s, ch) \in Nat
         /\ ChainId(s, ch) = IF ch.vars = <<>> THEN c ELSE LastId(s) + 1
BY Types DEF ChainId, ChainFrom

\* propagate at level 0.
LEMMA LogUnitLogs ==
  ASSUME NEW s, Coherent(s), NEW c \in DOMAIN s.lits, NEW t, t = LogUnit(s, c)
  PROVE  Logged(s, t)
<1>1. /\ c \in Nat /\ s.lits[c] \in Seq(LitsOf(s)) /\ Len(s.lits[c]) >= 1 /\ s.lits[c][1] \in LitsOf(s)
  BY LitsOfClause
<1>2. /\ Shaped(s) /\ s.log \in Seq(Range(s.log)) /\ LastId(s) \in Nat /\ s.unitId \in [Vars(s) -> Nat]
  BY Types DEF Coherent, Typed
<1>3. CASE DecisionLevel(s) > 0
  <2>1. t = s
    BY <1>3 DEF LogUnit
  <2>2. QED
    BY <1>2, <2>1 DEF Logged, SameTrail
<1>4. CASE ~(DecisionLevel(s) > 0)
  <2> DEFINE ls == AllButOne(s.lits[c])
             ch == ResolveUnits(s, Chain(c), ls)
             p == s.lits[c][1]
             u == EndChain(s, ch)
  <2>1. ls \in Seq(LitsOf(s))
    BY <1>1, Rest
  <2>2. ChainFrom(ch, c)
    <3>1. ChainFrom(Chain(c), c)
      BY <1>1, ChainIsFrom
    <3> HIDE DEF ls
    <3>2. QED
      BY <1>1, <2>1, <3>1, ResolveUnitsIs
  <2>3. t = LogAtRoot(s, p, ch)
    BY <1>4 DEF LogUnit
  <2>4. Var(p) \in Vars(s)
    BY <1>1 DEF LitsOf
  <2> HIDE DEF ls, ch, p
  <2>5. Logged(s, u) /\ u.unitId = s.unitId
    BY EndChainLogs
  <2>6. Coherent(u)
    BY <2>5, LoggedNotes
  <2>7. ChainId(s, ch) \in Nat
    BY <1>1, <2>2, ChainIdIs
  <2> HIDE DEF u
  <2>8. CASE IsFalse(s, p)
    <3>1. PICK r : t = EndChain(u, r)
      BY <2>3, <2>8 DEF LogAtRoot, u
    <3>2. Logged(u, t)
      BY <2>6, <3>1, EndChainLogs
    <3>3. QED
      BY <2>5, <3>2, LoggedTwice
  <2>9. CASE ~IsFalse(s, p)
    <3>1. t = [u EXCEPT !.unitId[Var(p)] = ChainId(s, ch)]
      BY <2>3, <2>9 DEF LogAtRoot, u
    <3>2. Shaped(u) /\ Vars(u) = Vars(s) /\ u.unitId \in [Vars(u) -> Nat] /\ LastId(u) \in Nat /\ u.log \in Seq(Range(u.log))
      BY <1>2, <2>5, SameTrailIs DEF Logged
    <3>3. SameBut(u, t, {"unitId"}) /\ t.unitId \in [Vars(u) -> Nat]
      <4> DEFINE v == Var(p)
                 id == ChainId(s, ch)
      <4>1. v \in Vars(u) /\ id \in Nat /\ t = [u EXCEPT !.unitId[v] = id]
        BY <2>4, <2>7, <3>1, <3>2
      <4> HIDE DEF v, id
      <4>2. Shaped(u) /\ u.unitId \in [Vars(u) -> Nat]
        BY <3>2
      <4>3. QED
        BY <4>1, <4>2, UnitIs
    <3>4. SameTrail(u, t) /\ t.lits = u.lits /\ t.clauses = u.clauses /\ t.learnts = u.learnts /\ Shaped(t)
      <4>1. {"unitId"} \cap Fixtures = {}
        BY SMT DEF Fixtures
      <4>2. QED
        BY <3>3, <4>1, SameButIs
    <3>5. t.watches = u.watches /\ t.order = u.order /\ t.qhead = u.qhead /\ t.ok = u.ok /\ t.log = u.log
      BY <3>3, SMT DEF SameBut, Fields
    <3>6. Logged(u, t)
      BY <3>2, <3>3, <3>4, <3>5 DEF Logged, LastId
    <3>7. QED
      BY <2>5, <3>6, LoggedTwice
  <2>10. QED
    BY <2>8, <2>9
<1>5. QED
  BY <1>3, <1>4

-----------------------------------------------------------------------------
(***************************************************************************)
(* propagate, one clause of one list.                                      *)
(***************************************************************************)
IsVisit(r) == DOMAIN r = {"s", "kept", "confl"}
Longer(f, c) == Append(f, c)

\* What a visit makes of its record.
LEMMA KeepIs ==
  ASSUME NEW r, IsVisit(r), NEW c, NEW t, t = Keep(r, c)
  PROVE  IsVisit(t) /\ t.s = r.s /\ t.kept = Longer(r.kept, c) /\ t.confl = r.confl
BY DEF IsVisit, Keep, Longer

KeptWith(r, c, ls) == [Keep(r, c) EXCEPT !.s.lits[c] = ls]

\* A satisfied clause stays in the list.
LEMMA SatisfiedIs ==
  ASSUME NEW r, IsVisit(r), NEW c, NEW ls, NEW t, t = KeptWith(r, c, ls), Shaped(r.s)
  PROVE  IsVisit(t) /\ Written(r.s, t.s, c, ls) /\ t.kept = Longer(r.kept, c) /\ t.confl = r.confl
<1> DEFINE k == Keep(r, c)
<1>1. IsVisit(k) /\ k.s = r.s /\ k.kept = Longer(r.kept, c) /\ k.confl = r.confl
  BY KeepIs
<1> HIDE DEF k
<1>2. t = [k EXCEPT !.s.lits[c] = ls]
  BY DEF k, KeptWith
<1>3. IsVisit(t) /\ t.kept = k.kept /\ t.confl = k.confl /\ t.s = [k.s EXCEPT !.lits[c] = ls]
  BY <1>1, <1>2 DEF IsVisit
<1>4. Shaped(k.s)
  BY <1>1
<1>5. Written(k.s, t.s, c, ls)
  <2> DEFINE u == k.s
             v == t.s
  <2>1. v = [u EXCEPT !.lits[c] = ls] /\ Shaped(u)
    BY <1>3, <1>4
  <2> HIDE DEF u, v
  <2>2. Written(u, v, c, ls)
    BY <2>1, WriteIs
  <2>3. QED
    BY <2>2 DEF u, v
<1>6. QED
  BY <1>1, <1>3, <1>5

\* What the visit of a clause with another watch to take changes.
LEMMA MovedIs ==
  ASSUME NEW r, IsVisit(r), NEW u, NEW t, t = [r EXCEPT !.s = u]
  PROVE  IsVisit(t) /\ t.s = u /\ t.kept = r.kept /\ t.confl = r.confl
BY DEF IsVisit

\* The end of a visit: the first literal is implied, or the clause is in conflict.
Conflicts(s, t) ==
    /\ SameBut(s, t, {"qhead", "ok"}) /\ t.qhead = NAssigns(s) /\ t.ok = (s.ok /\ DecisionLevel(s) > 0)

\* What the visit of a unit or false clause changes.
LEMMA InferIs ==
  ASSUME NEW r, IsVisit(r), Shaped(r.s), NEW c, NEW p, NEW t, t = Infer(r, c, p)
  PROVE  /\ IsVisit(t) /\ t.kept = r.kept
         /\ IF IsFalse(r.s, p) THEN Conflicts(r.s, t.s) /\ t.confl = c
            ELSE t.s = Enqueue(r.s, p, c) /\ t.confl = r.confl
<1>1. CASE ~IsFalse(r.s, p)
  BY <1>1 DEF Infer, IsVisit
<1>2. CASE IsFalse(r.s, p)
  <2> DEFINE s == r.s
             n == NAssigns(r.s)
             b == DecisionLevel(r.s)
  <2>1. t = [r EXCEPT !.s.qhead = n, !.s.ok = @ /\ b > 0, !.confl = c]
    BY <1>2 DEF Infer
  <2> HIDE DEF n, b
  <2>2. /\ IsVisit(t) /\ t.kept = r.kept /\ t.confl = c
        /\ t.s = [[s EXCEPT !.qhead = n] EXCEPT !.ok = (s.ok /\ b > 0)]
    BY <2>1, SMT DEF IsVisit, Shaped, Fields
  <2> DEFINE v == [s EXCEPT !.qhead = n]
             w == t.s
  <2>3. w = [v EXCEPT !.ok = (s.ok /\ b > 0)] /\ Shaped(s)
    BY <2>2
  <2> HIDE DEF s, w
  <2>4. SameBut(s, v, {"qhead"}) /\ v.qhead = n
    BY <2>3, QheadIs
  <2> HIDE DEF v
  <2>5. SameBut(v, w, {"ok"}) /\ w.ok = (s.ok /\ b > 0)
    BY <2>3, <2>4, OkIs DEF SameBut
  <2>6. SameBut(s, w, {"qhead", "ok"}) /\ w.qhead = n
    BY <2>4, <2>5, SMT DEF SameBut, Fields
  <2>7. QED
    BY <1>2, <2>2, <2>5, <2>6 DEF Conflicts, s, w, n, b
<1>3. QED
  BY <1>1, <1>2

\* What propagate leaves alone.
Extends(s, u) ==
    /\ u.trailLim = s.trailLim /\ u.rootLevel = s.rootLevel /\ u.simpAssigns = s.simpAssigns
    /\ u.order = s.order /\ Vars(u) = Vars(s) /\ Unassigned(u) \subseteq Unassigned(s)

\* An extended trail has the same literals and levels.
LEMMA ExtendsIs ==
  ASSUME NEW s, NEW u, Extends(s, u)
  PROVE  LitsOf(u) = LitsOf(s) /\ DecisionLevel(u) = DecisionLevel(s) /\ LevelStart(u) = LevelStart(s)
BY DEF Extends, LitsOf, DecisionLevel, LevelStart

\* What has the same trail as an extension is an extension.
LEMMA SameTrailExtends ==
  ASSUME NEW s, NEW u, Extends(s, u), NEW t, SameTrail(u, t), t.order = u.order
  PROVE  Extends(s, t)
BY SameTrailIs DEF Extends, SameTrail

(***************************************************************************)
(* The list ws of p is walked up to its place k: the lists of the others   *)
(* are in the solver, that of p is what is kept and what is still to come. *)
(***************************************************************************)
Pending(ws, k) == {ws[j] : j \in k + 1 .. Len(ws)}
Mixed(u, p, kept, rest) == [q \in LitsOf(u) |-> IF q = p THEN Range(kept) \cup rest ELSE Range(u.watches[q])]

Kept(kept, ws, k) ==
    /\ kept \in Seq(Nat) /\ \A i, j \in DOMAIN kept : kept[i] = kept[j] => i = j
    /\ Range(kept) \subseteq {ws[j] : j \in 1 .. k}

\* The literal p is true, and next in the queue.
Dequeues(s, p, u) == Value(u, p) = True /\ At(u, p) = s.qhead
Walking(s, p, k, u, kept) ==
    /\ Coherent(u) /\ Extends(s, u) /\ Dequeues(s, p, u)
    /\ u.watches[p] = s.watches[p] /\ Lists(u, u.watches)
    /\ Kept(kept, s.watches[p], k)
    /\ Covers(u, Mixed(u, p, kept, Pending(s.watches[p], k)))
InTrouble(s, u, confl) ==
    u.qhead = NAssigns(u) /\ u.ok = (s.ok /\ DecisionLevel(s) > 0) /\ InConflict(u, confl)
InPeace(s, p, k, u) ==
    u.qhead = s.qhead + 1 /\ u.ok = s.ok /\ Watching(u, s.qhead + 1, Pending(s.watches[p], k))
Walked(s, p, k, u, kept, confl) ==
    /\ Walking(s, p, k, u, kept)
    /\ IF confl = NoClause THEN InPeace(s, p, k, u) ELSE InTrouble(s, u, confl)

\* The place of a list that is looked at.
Distinct(ws) == ws \in Seq(Nat) /\ \A i, j \in DOMAIN ws : ws[i] = ws[j] => i = j

\* Visiting a clause takes it from those that are still to be visited.
LEMMA PendingIs ==
  ASSUME NEW ws, Distinct(ws), NEW k \in 1 .. Len(ws)
  PROVE  /\ Pending(ws, k - 1) = Pending(ws, k) \cup {ws[k]} /\ ws[k] \notin Pending(ws, k)
         /\ ws[k] \in Nat /\ ws[k] \in Pending(ws, k - 1)
         /\ \A kept : Kept(kept, ws, k - 1) => ws[k] \notin Range(kept) /\ Kept(kept, ws, k)
         /\ \A kept : Kept(kept, ws, k - 1) =>
              /\ Kept(Longer(kept, ws[k]), ws, k)
              /\ Range(Longer(kept, ws[k])) = Range(kept) \cup {ws[k]}
<1> USE DEF Distinct, Longer
<1>1. DOMAIN ws = 1 .. Len(ws) /\ Len(ws) \in Nat /\ ws[k] \in Nat
  BY LenProperties
<1>2. k + 1 .. Len(ws) \subseteq 1 .. Len(ws) /\ (k - 1) + 1 .. Len(ws) = (k + 1 .. Len(ws)) \cup {k} /\ k \notin k + 1 .. Len(ws)
  BY <1>1
<1>3. Pending(ws, k - 1) = Pending(ws, k) \cup {ws[k]} /\ ws[k] \notin Pending(ws, k)
  BY <1>1, <1>2 DEF Pending
<1>4. ASSUME NEW kept, Kept(kept, ws, k - 1)
      PROVE  /\ ws[k] \notin Range(kept) /\ Kept(kept, ws, k) /\ Kept(Longer(kept, ws[k]), ws, k)
             /\ Range(Longer(kept, ws[k])) = Range(kept) \cup {ws[k]}
  <2>1. kept \in Seq(Nat) /\ (\A i, j \in DOMAIN kept : kept[i] = kept[j] => i = j) /\ Range(kept) \subseteq {ws[j] : j \in 1 .. k - 1}
    BY <1>4 DEF Kept
  <2>2. ws[k] \notin {ws[j] : j \in 1 .. k - 1} /\ {ws[j] : j \in 1 .. k} = {ws[j] : j \in 1 .. k - 1} \cup {ws[k]}
    <3>1. 1 .. k = (1 .. k - 1) \cup {k} /\ k \notin 1 .. k - 1 /\ 1 .. k \subseteq 1 .. Len(ws)
      BY <1>1
    <3>2. \A j \in 1 .. k - 1 : ws[j] # ws[k]
      BY <1>1, <3>1
    <3>3. QED
      BY <3>1, <3>2
  <2>3. ws[k] \notin Range(kept)
    BY <2>1, <2>2
  <2> DEFINE g == Longer(kept, ws[k])
  <2>4. /\ Range(g) = Range(kept) \cup {ws[k]} /\ Len(g) = Len(kept) + 1 /\ Len(kept) \in Nat
        /\ g[Len(kept) + 1] = ws[k] /\ \A i \in 1 .. Len(kept) : g[i] = kept[i]
    BY <2>1, RangeAppend, LenProperties
  <2>5. g \in Seq(Nat) /\ DOMAIN g = 1 .. Len(kept) + 1 /\ DOMAIN kept = 1 .. Len(kept)
    BY <1>1, <2>1, <2>4
  <2> HIDE DEF g
  <2>6. \A i \in 1 .. Len(kept) : kept[i] \in Range(kept)
    BY <2>1, RangeIn
  <2>7. \A i, j \in DOMAIN g : g[i] = g[j] => i = j
    <3>1. ASSUME NEW i \in DOMAIN g, NEW j \in DOMAIN g, g[i] = g[j] PROVE i = j
      <4>1. CASE i \in 1 .. Len(kept) /\ j \in 1 .. Len(kept)
        BY <2>1, <2>4, <2>5, <3>1, <4>1
      <4>2. CASE i = Len(kept) + 1 /\ j \in 1 .. Len(kept)
        BY <2>3, <2>4, <2>6, <3>1, <4>2
      <4>3. CASE j = Len(kept) + 1 /\ i \in 1 .. Len(kept)
        BY <2>3, <2>4, <2>6, <3>1, <4>3
      <4>4. QED
        BY <2>4, <2>5, <3>1, <4>1, <4>2, <4>3
    <3>2. QED
      BY <3>1
  <2>8. Kept(g, ws, k) /\ Kept(kept, ws, k)
    BY <2>1, <2>2, <2>4, <2>5, <2>7 DEF Kept
  <2>9. QED
    BY <2>3, <2>4, <2>8 DEF g
<1>5. QED
  BY <1>1, <1>3, <1>4

\* A list without repetitions gets another member.
LEMMA DistinctLonger ==
  ASSUME NEW f, Distinct(f), NEW c \in Nat, c \notin Range(f)
  PROVE  Distinct(Longer(f, c)) /\ Range(Longer(f, c)) = Range(f) \cup {c}
<1> DEFINE g == Longer(f, c)
<1>1. f \in Seq(Nat) /\ \A i, j \in DOMAIN f : f[i] = f[j] => i = j
  BY DEF Distinct
<1>2. /\ Range(g) = Range(f) \cup {c} /\ Len(g) = Len(f) + 1 /\ Len(f) \in Nat
      /\ g[Len(f) + 1] = c /\ \A i \in 1 .. Len(f) : g[i] = f[i]
  BY <1>1, RangeAppend, LenProperties DEF Longer
<1>3. g \in Seq(Nat) /\ DOMAIN g = 1 .. Len(f) + 1 /\ DOMAIN f = 1 .. Len(f)
  BY <1>1, <1>2 DEF Longer
<1> HIDE DEF g
<1>4. \A i \in 1 .. Len(f) : f[i] \in Range(f)
  BY <1>1, RangeIn
<1>5. \A i, j \in DOMAIN g : g[i] = g[j] => i = j
  <2>1. ASSUME NEW i \in DOMAIN g, NEW j \in DOMAIN g, g[i] = g[j] PROVE i = j
    <3>1. CASE i \in 1 .. Len(f) /\ j \in 1 .. Len(f)
      BY <1>1, <1>2, <1>3, <2>1, <3>1
    <3>2. CASE i = Len(f) + 1 /\ j \in 1 .. Len(f)
      BY <1>2, <1>4, <2>1, <3>2
    <3>3. CASE j = Len(f) + 1 /\ i \in 1 .. Len(f)
      BY <1>2, <1>4, <2>1, <3>3
    <3>4. QED
      BY <1>2, <1>3, <2>1, <3>1, <3>2, <3>3
  <2>2. QED
    BY <2>1
<1>6. QED
  BY <1>2, <1>3, <1>5 DEF Distinct, g

\* The clause that is looked at has the false literal second.
LEMMA FalseSecondIs ==
  ASSUME NEW u, Coherent(u), NEW p \in LitsOf(u), Value(u, p) = True, NEW c \in DOMAIN u.lits,
         Neg(p) \in {u.lits[c][1], u.lits[c][2]}, NEW ls, ls = FalseSecond(u.lits[c], Neg(p))
  PROVE  /\ IsClause(u, ls) /\ Range(ls) = Range(u.lits[c]) /\ Len(ls) \in Nat /\ Len(ls) >= 2
         /\ DOMAIN ls = 1 .. Len(ls) /\ ls[1] \in LitsOf(u) /\ Var(ls[1]) # Var(p)
         /\ ls[2] = Neg(p) /\ IsFalse(u, ls[2]) /\ {ls[1], ls[2]} = {u.lits[c][1], u.lits[c][2]}
         /\ ls = u.lits[c] \/ \A v \in Vars(u) : u.reason[v] # c
         /\ Value(u, ls[1]) # True => \A v \in Vars(u) : u.reason[v] # c
<1> DEFINE k == u.lits[c]
<1>1. /\ k \in Seq(LitsOf(u)) /\ Len(k) \in Nat /\ Len(k) >= 2 /\ DOMAIN k = 1 .. Len(k)
      /\ k[1] \in LitsOf(u) /\ k[2] \in LitsOf(u) /\ Var(k[1]) # Var(k[2])
  BY LitsOfClause
<1>2. IsClause(u, k)
  BY DEF Coherent, Stored
<1>3. \A v \in Vars(u) : u.reason[v] = c => Value(u, k[1]) = True
  BY ReasonFirst
<1>4. /\ Neg(p) \in LitsOf(u) /\ Var(Neg(p)) = Var(p) /\ p \in Nat
  BY Types
<1>5. IsFalse(u, Neg(p)) /\ Value(u, Neg(p)) # True
  BY Types, Values DEF IsFalse
<1> HIDE DEF k
<1>6. CASE k[1] = Neg(p)
  <2>1. ls = Swap(k, 1, 2)
    BY <1>6 DEF FalseSecond, k
  <2>2. /\ IsClause(u, Swap(k, 1, 2)) /\ Range(Swap(k, 1, 2)) = Range(k) /\ Len(Swap(k, 1, 2)) = Len(k)
        /\ Swap(k, 1, 2)[1] = k[2] /\ Swap(k, 1, 2)[2] = k[1]
    <3>1. 1 \in DOMAIN k /\ 2 \in DOMAIN k
      BY <1>1
    <3>2. QED
      BY <1>2, <3>1, SwapIs
  <2>3. IsClause(u, ls) /\ Range(ls) = Range(k) /\ Len(ls) = Len(k) /\ ls[1] = k[2] /\ ls[2] = k[1]
    BY <2>1, <2>2
  <2>4. DOMAIN ls = 1 .. Len(ls)
    BY <2>3, LenProperties DEF IsClause
  <2>5. \A v \in Vars(u) : u.reason[v] # c
    BY <1>3, <1>5, <1>6
  <2>6. QED
    BY <1>1, <1>4, <1>5, <1>6, <2>3, <2>4, <2>5 DEF k
<1>7. CASE k[1] # Neg(p)
  <2>1. ls = k /\ k[2] = Neg(p)
    BY <1>7 DEF FalseSecond, k
  <2>2. QED
    BY <1>1, <1>2, <1>3, <1>4, <1>5, <2>1 DEF k
<1>8. QED
  BY <1>6, <1>7

\* Lists that are the same cover the same.
LEMMA CoversSame ==
  ASSUME NEW s, Vars(s) \subseteq Nat, DOMAIN s.lits \subseteq Nat, NEW R, Covers(s, R), NEW Q,
         \A q \in LitsOf(s) : Q[q] = R[q],
         \A c \in DOMAIN s.lits : s.lits[c][1] \in LitsOf(s) /\ s.lits[c][2] \in LitsOf(s)
  PROVE  Covers(s, Q)
<1>1. \A c \in DOMAIN s.lits : Neg(s.lits[c][1]) \in LitsOf(s) /\ Neg(s.lits[c][2]) \in LitsOf(s)
  BY NegIn
<1>2. \A c \in DOMAIN s.lits : Fixed(s, c) \/ \A i \in {1, 2} : c \in Q[Neg(s.lits[c][i])]
  BY <1>1 DEF Covers
<1>3. QED
  BY <1>2 DEF Covers

\* A clause that keeps its watches stays where it is.
LEMMA RewrittenCovers ==
  ASSUME NEW s, Coherent(s), NEW c \in DOMAIN s.lits, NEW ls, IsClause(s, ls), Range(ls) = Range(s.lits[c]),
         ls = s.lits[c] \/ \A v \in Vars(s) : s.reason[v] # c,
         {ls[1], ls[2]} = {s.lits[c][1], s.lits[c][2]},
         NEW t, Rewrites(s, t, c, ls), NEW R, Covers(s, R)
  PROVE  Covers(t, R)
<1>1. /\ DOMAIN t.lits = DOMAIN s.lits /\ t.lits[c] = ls
      /\ \A e \in DOMAIN s.lits : e # c => t.lits[e] = s.lits[e] /\ (Fixed(t, e) <=> Fixed(s, e))
      /\ Fixed(s, c) <=> Fixed(t, c)
  BY RewritesKeeps
<1>2. LitsOf(t) = LitsOf(s) /\ \A v : Settled(t, v) <=> Settled(s, v)
  BY SameTrailIs DEF Rewrites
<1>3. \A e \in DOMAIN s.lits : {t.lits[e][1], t.lits[e][2]} = {s.lits[e][1], s.lits[e][2]} /\ (Fixed(t, e) <=> Fixed(s, e))
  BY <1>1
<1>4. \A q \in LitsOf(t) : \A e \in R[q] : e \in DOMAIN t.lits /\ Neg(q) \in {t.lits[e][1], t.lits[e][2]}
  BY <1>1, <1>2, <1>3 DEF Covers
<1>5. \A e \in DOMAIN t.lits : Fixed(t, e) \/ \A i \in {1, 2} : e \in R[Neg(t.lits[e][i])]
  <2>1. ASSUME NEW e \in DOMAIN s.lits, ~Fixed(t, e), NEW i \in {1, 2} PROVE e \in R[Neg(t.lits[e][i])]
    <3>1. \A j \in {1, 2} : e \in R[Neg(s.lits[e][j])]
      BY <1>3, <2>1 DEF Covers
    <3>2. t.lits[e][i] \in {s.lits[e][1], s.lits[e][2]}
      BY <1>3, <2>1
    <3>3. QED
      BY <3>1, <3>2
  <2>2. QED
    BY <1>1, <2>1
<1>6. QED
  BY <1>2, <1>4, <1>5 DEF Covers

\* A clause is looked at: c is at the place k of the list, ls are its literals.
Ready(s, p) ==
    /\ Distinct(s.watches[p])
    /\ p \in LitsOf(s) /\ s.qhead \in Nat /\ LevelStart(s) \in Nat /\ LevelStart(s) <= s.qhead /\ s.ok \in BOOLEAN
Looks(s, p, k, u, kept, c, ls) ==
    /\ Ready(s, p) /\ k \in 1 .. Len(s.watches[p])
    /\ Walked(s, p, k - 1, u, kept, NoClause)
    /\ c = s.watches[p][k] /\ ls = FalseSecond(u.lits[c], Neg(p))

\* Two clauses watch the same literals.
SamePair(f, g) == {f[1], f[2]} = {g[1], g[2]}

\* What is known of the clause that is being looked at.
LEMMA LooksIs ==
  ASSUME NEW s, NEW p, NEW k, NEW u, NEW kept, NEW c, NEW ls, Looks(s, p, k, u, kept, c, ls)
  PROVE  /\ Coherent(u) /\ Extends(s, u) /\ p \in LitsOf(u) /\ LitsOf(u) = LitsOf(s)
         /\ c \in DOMAIN u.lits /\ c \in Nat /\ c # NoClause
         /\ IsClause(u, ls) /\ Range(ls) = Range(u.lits[c]) /\ Len(ls) \in Nat /\ Len(ls) >= 2
         /\ DOMAIN ls = 1 .. Len(ls) /\ ls[1] \in LitsOf(u) /\ Var(ls[1]) # Var(p)
         /\ ls[2] = Neg(p) /\ IsFalse(u, ls[2]) /\ SamePair(ls, u.lits[c])
         /\ ls = u.lits[c] \/ \A v \in Vars(u) : u.reason[v] # c
         /\ Value(u, ls[1]) # True => \A v \in Vars(u) : u.reason[v] # c
         /\ At(u, ls[2]) = s.qhead /\ LevelStart(u) = LevelStart(s)
         /\ IsFalse(u, ls[1]) => At(u, ls[1]) \in Nat /\ At(u, ls[1]) >= s.qhead + 1
<1>1. /\ Coherent(u) /\ Extends(s, u) /\ Value(u, p) = True /\ At(u, p) = s.qhead
      /\ Covers(u, Mixed(u, p, kept, Pending(s.watches[p], k - 1)))
      /\ Watching(u, s.qhead + 1, Pending(s.watches[p], k - 1))
      /\ c = s.watches[p][k] /\ ls = FalseSecond(u.lits[c], Neg(p))
      /\ s.qhead \in Nat
  BY DEF Looks, Walked, Walking, Dequeues, InPeace, Ready
<1>2. LitsOf(u) = LitsOf(s) /\ LevelStart(u) = LevelStart(s)
  BY <1>1, ExtendsIs
<1>3. p \in LitsOf(u) /\ Neg(p) \in LitsOf(u) /\ Var(Neg(p)) = Var(p)
  <2>1. p \in LitsOf(s)
    BY DEF Looks, Ready
  <2>2. Coherent(u) /\ p \in LitsOf(u)
    BY <1>1, <1>2, <2>1
  <2>3. QED
    BY <2>2, Types
<1>4. c \in Pending(s.watches[p], k - 1)
  BY <1>1, PendingIs DEF Looks, Ready
<1>5. c \in DOMAIN u.lits /\ Neg(p) \in {u.lits[c][1], u.lits[c][2]}
  BY <1>1, <1>3, <1>4 DEF Covers, Mixed
<1>6. c \in Nat /\ c # NoClause
  BY <1>1, <1>5, LitsOfClause
<1>7. /\ IsClause(u, ls) /\ Range(ls) = Range(u.lits[c]) /\ Len(ls) \in Nat /\ Len(ls) >= 2
      /\ DOMAIN ls = 1 .. Len(ls) /\ ls[1] \in LitsOf(u) /\ Var(ls[1]) # Var(p)
      /\ ls[2] = Neg(p) /\ IsFalse(u, ls[2]) /\ {ls[1], ls[2]} = {u.lits[c][1], u.lits[c][2]}
      /\ ls = u.lits[c] \/ \A v \in Vars(u) : u.reason[v] # c
      /\ Value(u, ls[1]) # True => \A v \in Vars(u) : u.reason[v] # c
  <2>1. Coherent(u) /\ Value(u, p) = True /\ ls = FalseSecond(u.lits[c], Neg(p))
    BY <1>1
  <2>2. p \in LitsOf(u)
    BY <1>3
  <2>3. QED
    BY <1>5, <2>1, <2>2, FalseSecondIs
<1>8. At(u, ls[2]) = s.qhead
  BY <1>1, <1>3, <1>7 DEF At
<1>9. ASSUME IsFalse(u, ls[1]) PROVE At(u, ls[1]) \in Nat /\ At(u, ls[1]) >= s.qhead + 1
  <2>1. Value(u, ls[1]) # Undef /\ Value(u, p) # Undef
    BY <1>1, <1>9 DEF IsFalse, False, Undef, True
  <2>2. At(u, ls[1]) \in Nat
    BY <1>1, <1>7, <2>1, OnTrail
  <2>3. At(u, ls[1]) # s.qhead
    <3>1. Coherent(u) /\ ls[1] \in LitsOf(u) /\ p \in LitsOf(u) /\ Var(ls[1]) # Var(p)
      BY <1>1, <1>3, <1>7
    <3>2. At(u, ls[1]) # At(u, p)
      BY <2>1, <3>1, SamePlace
    <3>3. QED
      BY <1>1, <3>2
  <2>4. ASSUME At(u, ls[1]) < s.qhead + 1 PROVE FALSE
    <3>1. Awake(u, c, s.qhead + 1, Pending(s.watches[p], k - 1))
      BY <1>1, <1>5 DEF Watching
    <3>2. PICK i \in {1, 2} : u.lits[c][i] = ls[1] /\ u.lits[c][3 - i] = ls[2]
      <4>1. CASE u.lits[c][1] = ls[1]
        <5>1. u.lits[c][2] = ls[2]
          BY <1>3, <1>7, <4>1
        <5>2. QED
          BY <4>1, <5>1
      <4>2. CASE u.lits[c][2] = ls[1]
        <5>1. u.lits[c][1] = ls[2]
          BY <1>3, <1>7, <4>2
        <5>2. QED
          BY <4>2, <5>1
      <4>3. QED
        BY <1>7, <4>1, <4>2
    <3>3. At(u, ls[1]) # (s.qhead + 1) - 1
      BY <1>1, <2>2, <2>3
    <3>4. Guards(u, ls[2], ls[1])
      BY <1>9, <2>4, <3>1, <3>2, <3>3 DEF Awake
    <3>5. QED
      BY <1>7, <3>4 DEF Guards, IsFalse, True, False
  <2>5. QED
    BY <1>1, <2>2, <2>4
<1>10. SamePair(ls, u.lits[c])
  BY <1>7 DEF SamePair
<1>11. QED
  BY <1>1, <1>2, <1>3, <1>5, <1>6, <1>7, <1>8, <1>9, <1>10

\* What became false since the last level began is out of no return's reach.
LEMMA OutlivesLast ==
  ASSUME NEW s, Coherent(s), NEW p, NEW q, At(s, q) \in Int, At(s, q) >= LevelStart(s)
  PROVE  Outlives(s, p, q)
BY Starts DEF Outlives

\* A clause with its first literal true.
LEMMA AwakeTrue ==
  ASSUME NEW s, Coherent(s), NEW c \in DOMAIN s.lits, Value(s, s.lits[c][1]) = True,
         At(s, s.lits[c][2]) \in Int, At(s, s.lits[c][2]) >= LevelStart(s), NEW h, NEW late
  PROVE  Awake(s, c, h, late)
<1>1. ~IsFalse(s, s.lits[c][1])
  BY DEF IsFalse, True, False
<1>2. Guards(s, s.lits[c][1], s.lits[c][2])
  BY OutlivesLast DEF Guards
<1>3. QED
  BY <1>1, <1>2 DEF Awake

\* A clause that is kept moves from what is to come to what is kept.
LEMMA MixedKept ==
  ASSUME NEW ws, Distinct(ws), NEW k \in 1 .. Len(ws),
         NEW kept, Kept(kept, ws, k - 1), NEW u, NEW t, LitsOf(t) = LitsOf(u), t.watches = u.watches, NEW p
  PROVE  /\ \A q \in LitsOf(t) : Mixed(t, p, Longer(kept, ws[k]), Pending(ws, k))[q] = Mixed(u, p, kept, Pending(ws, k - 1))[q]
         /\ Kept(Longer(kept, ws[k]), ws, k)
<1>1. Pending(ws, k - 1) = Pending(ws, k) \cup {ws[k]} /\ Range(Longer(kept, ws[k])) = Range(kept) \cup {ws[k]} /\ Kept(Longer(kept, ws[k]), ws, k)
  BY PendingIs
<1>2. Range(kept) \cup Pending(ws, k - 1) = Range(Longer(kept, ws[k])) \cup Pending(ws, k)
  BY <1>1
<1>3. QED
  BY <1>1, <1>2 DEF Mixed

\* The list is walked over a clause that is kept.
LEMMA KeptWalks ==
  ASSUME NEW s, NEW p, NEW k \in 1 .. Len(s.watches[p]), Ready(s, p), NEW u, NEW kept, Walking(s, p, k - 1, u, kept),
         NEW t, SameTrail(u, t), Coherent(t), t.watches = u.watches, t.order = u.order,
         \A R : Covers(u, R) => Covers(t, R)
  PROVE  Walking(s, p, k, t, Longer(kept, s.watches[p][k]))
<1> DEFINE ws == s.watches[p]
           g == Longer(kept, ws[k])
<1>1. Distinct(ws) /\ k \in 1 .. Len(ws)
  BY DEF Ready
<1>2. /\ Extends(s, u) /\ Dequeues(s, p, u) /\ u.watches[p] = ws /\ Lists(u, u.watches)
      /\ Kept(kept, ws, k - 1) /\ Covers(u, Mixed(u, p, kept, Pending(ws, k - 1)))
  BY DEF Walking
<1> HIDE DEF ws
<1>3. LitsOf(t) = LitsOf(u) /\ Value(t, p) = Value(u, p) /\ At(t, p) = At(u, p)
  BY SameTrailIs
<1>4. /\ \A q \in LitsOf(t) : Mixed(t, p, g, Pending(ws, k))[q] = Mixed(u, p, kept, Pending(ws, k - 1))[q]
      /\ Kept(g, ws, k)
  BY <1>1, <1>2, <1>3, MixedKept
<1>5. Covers(t, Mixed(u, p, kept, Pending(ws, k - 1)))
  BY <1>2
<1> HIDE DEF g
<1>6. Covers(t, Mixed(t, p, g, Pending(ws, k)))
  <2>1. Vars(t) \subseteq Nat
    BY Types
  <2>2. DOMAIN t.lits \subseteq Nat /\ \A e \in DOMAIN t.lits : t.lits[e][1] \in LitsOf(t) /\ t.lits[e][2] \in LitsOf(t)
    BY LitsOfClause
  <2> DEFINE R == Mixed(u, p, kept, Pending(ws, k - 1))
             Q == Mixed(t, p, g, Pending(ws, k))
  <2>3. Covers(t, R) /\ \A q \in LitsOf(t) : Q[q] = R[q]
    BY <1>4, <1>5
  <2> HIDE DEF R, Q
  <2>4. Covers(t, Q)
    BY <2>1, <2>2, <2>3, CoversSame
  <2>5. QED
    BY <2>4 DEF Q
<1>7. Extends(s, t)
  BY <1>2, SameTrailExtends
<1>8. Dequeues(s, p, t) /\ Lists(t, t.watches) /\ t.watches[p] = ws
  BY <1>2, <1>3 DEF Dequeues, Lists
<1>9. QED
  BY <1>4, <1>6, <1>7, <1>8 DEF Walking, ws, g

\* The clause is written with the false literal second.
LEMMA RewrittenWalks ==
  ASSUME NEW s, NEW p, NEW k, NEW u, NEW kept, NEW c, NEW ls, Looks(s, p, k, u, kept, c, ls),
         NEW t, Written(u, t, c, ls)
  PROVE  /\ Walking(s, p, k, t, Longer(kept, c)) /\ c \in DOMAIN t.lits /\ t.lits[c] = ls
         /\ \A e \in DOMAIN t.lits : e # c => Awake(t, e, s.qhead + 1, Pending(s.watches[p], k))
         /\ t.qhead = s.qhead + 1 /\ t.ok = s.ok /\ SameTrail(u, t) /\ Coherent(t)
         /\ \A q : Value(t, q) = Value(u, q) /\ At(t, q) = At(u, q)
<1>1. /\ Coherent(u) /\ c \in DOMAIN u.lits /\ IsClause(u, ls) /\ Range(ls) = Range(u.lits[c])
      /\ {ls[1], ls[2]} = {u.lits[c][1], u.lits[c][2]}
      /\ ls = u.lits[c] \/ \A v \in Vars(u) : u.reason[v] # c
  <2>1. /\ Coherent(u) /\ c \in DOMAIN u.lits /\ IsClause(u, ls) /\ Range(ls) = Range(u.lits[c])
        /\ SamePair(ls, u.lits[c])
        /\ ls = u.lits[c] \/ \A v \in Vars(u) : u.reason[v] # c
    BY LooksIs
  <2>2. QED
    BY <2>1 DEF SamePair
<1>2. /\ Ready(s, p) /\ k \in 1 .. Len(s.watches[p]) /\ c = s.watches[p][k] /\ Walking(s, p, k - 1, u, kept)
      /\ InPeace(s, p, k - 1, u)
  BY DEF Looks, Walked
<1>3. /\ Rewrites(u, t, c, ls) /\ t.watches = u.watches /\ t.order = u.order /\ t.qhead = u.qhead /\ t.ok = u.ok
      /\ SameTrail(u, t)
  BY <1>1, WrittenIs DEF Rewrites
<1>4. /\ Coherent(t) /\ DOMAIN t.lits = DOMAIN u.lits /\ t.lits[c] = ls
      /\ \A e \in DOMAIN u.lits : \A h, late : e # c /\ Awake(u, e, h, late) => Awake(t, e, h, late)
  <2>1. Rewrites(u, t, c, ls)
    BY <1>3
  <2>2. QED
    BY <1>1, <2>1, RewritesKeeps
<1>5. \A R : Covers(u, R) => Covers(t, R)
  <2>1. Rewrites(u, t, c, ls)
    BY <1>3
  <2>2. QED
    BY <1>1, <2>1, RewrittenCovers
<1>6. Walking(s, p, k, t, Longer(kept, c))
  <2>1. SameTrail(u, t) /\ Coherent(t) /\ t.watches = u.watches /\ t.order = u.order
    BY <1>3, <1>4
  <2>2. Walking(s, p, k, t, Longer(kept, s.watches[p][k]))
    BY <1>2, <1>5, <2>1, KeptWalks
  <2>3. QED
    BY <1>2, <2>2
<1>7. \A e \in DOMAIN t.lits : e # c => Awake(t, e, s.qhead + 1, Pending(s.watches[p], k))
  <2> DEFINE ws == s.watches[p]
  <2>1. Pending(ws, k - 1) = Pending(ws, k) \cup {c}
    <3>1. Distinct(ws) /\ k \in 1 .. Len(ws) /\ c = ws[k]
      BY <1>2 DEF Ready
    <3> HIDE DEF ws
    <3>2. QED
      BY <3>1, PendingIs
  <2>2. \A e \in DOMAIN u.lits : Awake(u, e, s.qhead + 1, Pending(ws, k - 1))
    BY <1>2 DEF InPeace, Watching
  <2> HIDE DEF ws
  <2>3. \A e \in DOMAIN t.lits : e # c => Awake(t, e, s.qhead + 1, Pending(ws, k - 1))
    BY <1>4, <2>2
  <2>4. \A e \in DOMAIN t.lits : e # c => Awake(t, e, s.qhead + 1, Pending(ws, k))
    BY <2>1, <2>3 DEF Awake
  <2>5. QED
    BY <2>4 DEF ws
<1>8. QED
  BY <1>1, <1>2, <1>3, <1>4, <1>6, <1>7, SameTrailIs DEF InPeace

\* The list of another literal gets the clause.
LEMMA MovedWalks ==
  ASSUME NEW s, NEW p, NEW k, NEW u, NEW kept, NEW c, NEW ls, Looks(s, p, k, u, kept, c, ls),
         Value(u, ls[1]) # True, NEW m \in 3 .. Len(ls), ~IsFalse(u, ls[m]),
         NEW t, Moved(u, t, c, ls, m)
  PROVE  Walked(s, p, k, t, kept, NoClause)
<1> DEFINE ws == s.watches[p]
           new == Swap(ls, 2, m)
           n == Neg(ls[m])
           R == Mixed(u, p, kept, Pending(ws, k - 1))
           Q == Mixed(t, p, kept, Pending(ws, k))
<1>1. /\ Coherent(u) /\ Extends(s, u) /\ p \in LitsOf(u) /\ c \in DOMAIN u.lits /\ c \in Nat
      /\ IsClause(u, ls) /\ Range(ls) = Range(u.lits[c]) /\ Len(ls) \in Nat /\ Len(ls) >= 2
      /\ DOMAIN ls = 1 .. Len(ls) /\ ls[1] \in LitsOf(u) /\ Var(ls[1]) # Var(p)
      /\ ls[2] = Neg(p) /\ IsFalse(u, ls[2]) /\ {ls[1], ls[2]} = {u.lits[c][1], u.lits[c][2]}
      /\ \A v \in Vars(u) : u.reason[v] # c
      /\ IsFalse(u, ls[1]) => At(u, ls[1]) \in Nat /\ At(u, ls[1]) >= s.qhead + 1
  <2>1. /\ Coherent(u) /\ Extends(s, u) /\ p \in LitsOf(u) /\ c \in DOMAIN u.lits /\ c \in Nat
        /\ IsClause(u, ls) /\ Range(ls) = Range(u.lits[c]) /\ Len(ls) \in Nat /\ Len(ls) >= 2
    BY LooksIs
  <2>2. /\ DOMAIN ls = 1 .. Len(ls) /\ ls[1] \in LitsOf(u) /\ Var(ls[1]) # Var(p)
        /\ ls[2] = Neg(p) /\ IsFalse(u, ls[2])
    BY LooksIs
  <2>2a. {ls[1], ls[2]} = {u.lits[c][1], u.lits[c][2]}
    <3>1. SamePair(ls, u.lits[c])
      BY LooksIs
    <3>2. QED
      BY <3>1 DEF SamePair
  <2>3. /\ \A v \in Vars(u) : u.reason[v] # c
        /\ IsFalse(u, ls[1]) => At(u, ls[1]) \in Nat /\ At(u, ls[1]) >= s.qhead + 1
    BY LooksIs
  <2>4. QED
    BY <2>1, <2>2, <2>2a, <2>3
<1>2. /\ Ready(s, p) /\ k \in 1 .. Len(ws) /\ c = ws[k] /\ Distinct(ws) /\ s.qhead \in Nat
      /\ Walking(s, p, k - 1, u, kept) /\ InPeace(s, p, k - 1, u)
  BY DEF Looks, Walked, Ready
<1>3. /\ Dequeues(s, p, u) /\ u.watches[p] = ws /\ Lists(u, u.watches) /\ Kept(kept, ws, k - 1) /\ Covers(u, R)
  BY <1>2 DEF Walking
<1>4. /\ SameTrail(u, t) /\ t.order = u.order /\ t.qhead = u.qhead /\ t.ok = u.ok
      /\ t.lits = [u.lits EXCEPT ![c] = new] /\ t.watches = [u.watches EXCEPT ![n] = Append(@, c)]
  BY DEF Moved, SameTrail
<1>5. Rewrites(u, t, c, new)
  <2>1. /\ Shaped(t) /\ t.clauses = u.clauses /\ t.learnts = u.learnts /\ t.unitId = u.unitId /\ t.log = u.log
    BY DEF Moved
  <2>2. u.ok \in BOOLEAN /\ u.unitId \in [Vars(u) -> Nat] /\ u.log \in Seq(Range(u.log)) /\ LastId(u) \in Nat
    BY <1>1, Types DEF Coherent, Typed
  <2> HIDE DEF new
  <2>3. QED
    BY <1>4, <2>1, <2>2 DEF Rewrites, LastId
<1>6. /\ ls[m] \in LitsOf(u) /\ Var(ls[m]) # Var(ls[1]) /\ Var(ls[m]) # Var(ls[2])
  BY <1>1 DEF IsClause
<1>7. /\ n \in LitsOf(u) /\ Neg(n) = ls[m] /\ Var(n) = Var(ls[m]) /\ Var(Neg(p)) = Var(p) /\ n # p
  BY <1>1, <1>6, Types
<1>8. /\ IsClause(u, new) /\ Range(new) = Range(ls) /\ Len(new) = Len(ls)
      /\ new[1] = ls[1] /\ new[2] = ls[m]
  <2>1. 2 \in DOMAIN ls /\ m \in DOMAIN ls /\ 1 \in DOMAIN ls /\ 1 # 2 /\ 1 # m
    BY <1>1
  <2>2. IsClause(u, ls)
    BY <1>1
  <2>3. /\ IsClause(u, Swap(ls, 2, m)) /\ Range(Swap(ls, 2, m)) = Range(ls) /\ Len(Swap(ls, 2, m)) = Len(ls)
        /\ Swap(ls, 2, m)[2] = ls[m] /\ \A j \in DOMAIN ls : j # 2 /\ j # m => Swap(ls, 2, m)[j] = ls[j]
    BY <2>1, <2>2, SwapIs
  <2>4. QED
    BY <2>1, <2>3
<1> HIDE DEF new, n, ws
<1>9. /\ Coherent(t) /\ DOMAIN t.lits = DOMAIN u.lits /\ t.lits[c] = new
      /\ \A e \in DOMAIN u.lits : e # c => t.lits[e] = u.lits[e] /\ (Fixed(t, e) <=> Fixed(u, e))
      /\ \A w : Lists(u, w) => Lists(t, w)
      /\ \A e \in DOMAIN u.lits : \A h, late : e # c /\ Awake(u, e, h, late) => Awake(t, e, h, late)
  <2>1. Range(new) = Range(u.lits[c])
    BY <1>1, <1>8
  <2>2. QED
    BY <1>1, <1>5, <1>8, <2>1, RewritesKeeps
<1>10. /\ LitsOf(t) = LitsOf(u) /\ \A v : Settled(t, v) <=> Settled(u, v)
       /\ \A q : Value(t, q) = Value(u, q) /\ (IsFalse(t, q) <=> IsFalse(u, q)) /\ At(t, q) = At(u, q)
  BY <1>4, SameTrailIs
<1>11. Pending(ws, k - 1) = Pending(ws, k) \cup {c} /\ c \notin Pending(ws, k) /\ c \notin Range(kept) /\ Kept(kept, ws, k)
  BY <1>2, <1>3, PendingIs
<1>12. ~Locked(u, c)
  BY <1>1, LitsOfClause DEF Locked, LitsOf
<1>13. c \notin Range(u.watches[n])
  <2>1. ASSUME c \in Range(u.watches[n]) PROVE FALSE
    <3>1. R[n] = Range(u.watches[n])
      BY <1>7 DEF Mixed
    <3>2. Neg(n) \in {u.lits[c][1], u.lits[c][2]}
      BY <1>3, <1>7, <2>1, <3>1 DEF Covers
    <3>3. QED
      BY <1>1, <1>6, <1>7, <3>2
  <2>2. QED
    BY <2>1
<1> QED
  <2>1. /\ u.watches \in [LitsOf(u) -> Seq(Nat)] /\ \A q \in LitsOf(u) : Distinct(u.watches[q])
    BY <1>3 DEF Lists, Distinct
  <2>2. /\ t.watches \in [LitsOf(u) -> Seq(Nat)] /\ t.watches[n] = Longer(u.watches[n], c)
        /\ \A q \in LitsOf(u) : q # n => t.watches[q] = u.watches[q]
    <3>1. u.watches[n] \in Seq(Nat)
      BY <1>7, <2>1
    <3>2. Append(u.watches[n], c) \in Seq(Nat)
      BY <1>1, <3>1
    <3>3. QED
      BY <1>4, <1>7, <2>1, <3>2 DEF Longer
  <2>3. Distinct(t.watches[n]) /\ Range(t.watches[n]) = Range(u.watches[n]) \cup {c}
    BY <1>1, <1>7, <1>13, <2>1, <2>2, DistinctLonger
  <2>4. Lists(t, t.watches)
    BY <1>10, <2>1, <2>2, <2>3 DEF Lists, Distinct
  <2>5. \A q \in LitsOf(u) : R[q] = IF q = p THEN Range(kept) \cup Pending(ws, k) \cup {c} ELSE Range(u.watches[q])
    BY <1>11 DEF Mixed
  <2>6. \A q \in LitsOf(u) : Q[q] = IF q = p THEN Range(kept) \cup Pending(ws, k)
                                    ELSE IF q = n THEN R[q] \cup {c} ELSE R[q]
    BY <1>7, <1>10, <2>2, <2>3, <2>5 DEF Mixed
  <2>7. Covers(t, Q)
    <3> HIDE DEF R, Q
    <3>1. ASSUME NEW q \in LitsOf(t), NEW e \in Q[q]
          PROVE  e \in DOMAIN t.lits /\ Neg(q) \in {t.lits[e][1], t.lits[e][2]}
      <4>1. q \in LitsOf(u)
        BY <1>10
      <4>2. CASE e = c
        <5>1. q # p
          BY <1>11, <2>6, <4>1, <4>2, <3>1
        <5>2. CASE q = n
          BY <1>1, <1>7, <1>8, <1>9, <4>2, <5>2
        <5>3. CASE q # n
          <6>1. c \in R[q]
            BY <2>6, <3>1, <4>1, <4>2, <5>1, <5>3
          <6>2. Neg(q) \in {u.lits[c][1], u.lits[c][2]}
            BY <1>3, <4>1, <6>1 DEF Covers
          <6>3. Neg(q) # Neg(p)
            <7>1. Neg(Neg(q)) = q /\ Neg(Neg(p)) = p
              BY <1>1, <4>1, Types
            <7>2. QED
              BY <5>1, <7>1
          <6>4. Neg(q) = ls[1]
            BY <1>1, <6>2, <6>3
          <6>5. QED
            BY <1>1, <1>8, <1>9, <4>2, <6>4
        <5>4. QED
          BY <5>2, <5>3
      <4>3. CASE e # c
        <5>1. e \in R[q]
          BY <2>5, <2>6, <3>1, <4>1, <4>3
        <5>2. e \in DOMAIN u.lits /\ Neg(q) \in {u.lits[e][1], u.lits[e][2]}
          BY <1>3, <4>1, <5>1 DEF Covers
        <5>3. QED
          BY <1>9, <4>3, <5>2
      <4>4. QED
        BY <4>2, <4>3
    <3>2. ASSUME NEW q \in LitsOf(t), Settled(t, Var(q)) PROVE Q[q] = {}
      <4>1. q \in LitsOf(u) /\ Settled(u, Var(q))
        BY <1>10, <3>2
      <4>2. R[q] = {}
        BY <1>3, <4>1 DEF Covers
      <4>3. q # p
        BY <2>5, <4>1, <4>2
      <4>4. q # n
        <5>1. ASSUME q = n PROVE FALSE
          <6>1. Settled(u, Var(ls[m]))
            BY <1>7, <4>1, <5>1
          <6>2. Value(u, ls[m]) = True
            <7>1. Value(u, ls[m]) # Undef
              BY <1>1, <1>6, <6>1, Types, Values DEF Settled
            <7>2. QED
              BY <1>1, <1>6, <7>1, Types, Values DEF IsFalse
          <6>3. PICK j \in DOMAIN u.lits[c] : u.lits[c][j] = ls[m]
            <7>1. m \in DOMAIN ls /\ Range(ls) = Range(u.lits[c])
              BY <1>1
            <7>2. ls[m] \in Range(u.lits[c])
              BY <7>1 DEF Range
            <7>3. QED
              BY <7>2 DEF Range
          <6>4. Fixed(u, c)
            BY <1>1, <6>1, <6>2, <6>3 DEF Coherent, Simplified
          <6>5. QED
            BY <1>12, <6>4 DEF Fixed
        <5>2. QED
          BY <5>1
      <4>5. QED
        BY <2>6, <4>1, <4>2, <4>3, <4>4
    <3>3. ASSUME NEW e \in DOMAIN t.lits, ~Fixed(t, e), NEW i \in {1, 2} PROVE e \in Q[Neg(t.lits[e][i])]
      <4>1. \A q \in LitsOf(u) : \A d : d \in R[q] /\ (d # c \/ q # p) => d \in Q[q]
        BY <2>5, <2>6
      <4>2. CASE e = c
        <5>1. ~Fixed(u, c)
          BY <1>12 DEF Fixed
        <5>2. \A j \in {1, 2} : c \in R[Neg(u.lits[c][j])]
          BY <1>1, <1>3, <5>1 DEF Covers
        <5>3. c \in R[Neg(ls[1])]
          BY <1>1, <5>2
        <5>4. Neg(ls[1]) \in LitsOf(u) /\ Neg(ls[1]) # p
          BY <1>1, Types
        <5>5. c \in Q[Neg(ls[1])]
          BY <4>1, <5>3, <5>4
        <5>6. c \in Q[n]
          BY <1>7, <2>6
        <5>7. t.lits[e][1] = ls[1] /\ Neg(t.lits[e][2]) = n
          BY <1>8, <1>9, <4>2 DEF n
        <5>8. QED
          BY <3>3, <4>2, <5>5, <5>6, <5>7
      <4>3. CASE e # c
        <5>1. e \in DOMAIN u.lits /\ t.lits[e] = u.lits[e] /\ ~Fixed(u, e)
          BY <1>9, <3>3, <4>3
        <5>2. e \in R[Neg(u.lits[e][i])]
          BY <1>3, <3>3, <5>1 DEF Covers
        <5>3. Neg(u.lits[e][i]) \in LitsOf(u)
          BY <1>1, <3>3, <5>1, LitsOfClause, NegIn
        <5>4. QED
          BY <4>1, <4>3, <5>1, <5>2, <5>3
      <4>4. QED
        BY <4>2, <4>3
    <3>4. QED
      BY <3>1, <3>2, <3>3 DEF Covers
  <2>8. Awake(t, c, s.qhead + 1, Pending(ws, k))
    <3>1. ~IsFalse(t, t.lits[c][2])
      BY <1>8, <1>9, <1>10
    <3>2. IsFalse(t, t.lits[c][1]) => ~(At(t, t.lits[c][1]) < s.qhead + 1)
      BY <1>1, <1>2, <1>8, <1>9, <1>10
    <3>3. QED
      BY <3>1, <3>2 DEF Awake
  <2>9. \A e \in DOMAIN t.lits : e # c => Awake(t, e, s.qhead + 1, Pending(ws, k))
    <3>1. \A e \in DOMAIN u.lits : Awake(u, e, s.qhead + 1, Pending(ws, k - 1))
      BY <1>2 DEF InPeace, Watching, ws
    <3>2. \A e \in DOMAIN t.lits : e # c => Awake(t, e, s.qhead + 1, Pending(ws, k - 1))
      BY <1>9, <3>1
    <3>3. QED
      BY <1>11, <3>2 DEF Awake
  <2>10. Extends(s, t) /\ Dequeues(s, p, t)
    BY <1>1, <1>3, <1>4, <1>10, SameTrailExtends DEF Dequeues
  <2>11. t.watches[p] = ws
    BY <1>1, <1>3, <1>7, <2>2
  <2>12. Walking(s, p, k, t, kept)
    BY <1>9, <1>11, <2>4, <2>7, <2>10, <2>11 DEF Walking, ws
  <2>13. InPeace(s, p, k, t)
    BY <1>2, <1>4, <2>8, <2>9 DEF InPeace, Watching, ws
  <2>14. QED
    BY <2>12, <2>13 DEF Walked

\* A clause with a true literal stays where it is.
LEMMA SatisfiedWalks ==
  ASSUME NEW s, NEW p, NEW k, NEW u, NEW kept, NEW c, NEW ls, Looks(s, p, k, u, kept, c, ls),
         Value(u, ls[1]) = True, NEW t, Written(u, t, c, ls)
  PROVE  Walked(s, p, k, t, Longer(kept, c), NoClause)
<1>1. /\ Walking(s, p, k, t, Longer(kept, c)) /\ c \in DOMAIN t.lits /\ t.lits[c] = ls
      /\ \A e \in DOMAIN t.lits : e # c => Awake(t, e, s.qhead + 1, Pending(s.watches[p], k))
      /\ t.qhead = s.qhead + 1 /\ t.ok = s.ok /\ SameTrail(u, t) /\ Coherent(t)
      /\ \A q : Value(t, q) = Value(u, q) /\ At(t, q) = At(u, q)
  BY RewrittenWalks
<1>2. /\ At(u, ls[2]) = s.qhead /\ LevelStart(u) = LevelStart(s) /\ s.qhead \in Nat /\ s.qhead >= LevelStart(s)
      /\ LevelStart(s) \in Nat
  <2>1. s.qhead \in Nat /\ s.qhead >= LevelStart(s) /\ LevelStart(s) \in Nat
    BY DEF Looks, Ready
  <2>2. At(u, ls[2]) = s.qhead /\ LevelStart(u) = LevelStart(s)
    BY LooksIs
  <2>3. QED
    BY <2>1, <2>2
<1>3. LevelStart(t) = LevelStart(u)
  BY <1>1, SameTrailIs
<1>4. Value(t, t.lits[c][1]) = True /\ At(t, t.lits[c][2]) \in Int /\ At(t, t.lits[c][2]) >= LevelStart(t)
  BY <1>1, <1>2, <1>3
<1>5. \A h, late : Awake(t, c, h, late)
  BY <1>1, <1>4, AwakeTrue
<1>6. InPeace(s, p, k, t)
  BY <1>1, <1>5 DEF InPeace, Watching
<1>7. QED
  BY <1>1, <1>6 DEF Walked

\* Notes are taken on the way.
LEMMA NotesWalk ==
  ASSUME NEW s, NEW p, NEW k, NEW u, NEW kept, Walking(s, p, k, u, kept),
         NEW t, Notes(u, t), t.watches = u.watches, t.order = u.order
  PROVE  Walking(s, p, k, t, kept)
<1> DEFINE ws == s.watches[p]
           R == Mixed(u, p, kept, Pending(ws, k))
           Q == Mixed(t, p, kept, Pending(ws, k))
<1>1. /\ Coherent(u) /\ Extends(s, u) /\ Dequeues(s, p, u) /\ u.watches[p] = ws /\ Lists(u, u.watches)
      /\ Kept(kept, ws, k) /\ Covers(u, R)
  BY DEF Walking
<1>2. SameTrail(u, t)
  BY DEF Notes
<1>3. LitsOf(t) = LitsOf(u) /\ Value(t, p) = Value(u, p) /\ At(t, p) = At(u, p)
  BY <1>2, SameTrailIs
<1>4. Coherent(t) /\ (\A A : Covers(u, A) => Covers(t, A)) /\ (\A w : Lists(u, w) => Lists(t, w))
  BY <1>1, NotesKeep
<1>5. \A q \in LitsOf(t) : Q[q] = R[q]
  BY <1>3 DEF Mixed
<1> HIDE DEF ws, R, Q
<1>6. Covers(t, Q)
  <2>1. Vars(t) \subseteq Nat
    BY <1>4, Types
  <2>2. DOMAIN t.lits \subseteq Nat /\ \A e \in DOMAIN t.lits : t.lits[e][1] \in LitsOf(t) /\ t.lits[e][2] \in LitsOf(t)
    BY <1>4, LitsOfClause
  <2>3. Covers(t, R)
    BY <1>1, <1>4
  <2>4. QED
    BY <1>5, <2>1, <2>2, <2>3, CoversSame
<1>7. Extends(s, t) /\ Dequeues(s, p, t) /\ t.watches[p] = ws /\ Lists(t, t.watches)
  BY <1>1, <1>2, <1>3, <1>4, SameTrailExtends DEF Dequeues
<1>8. QED
  BY <1>1, <1>4, <1>6, <1>7 DEF Walking, ws, Q

\* enqueue assigns at the current level.
LEMMA EnqueueAssigns ==
  ASSUME NEW s, Coherent(s), NEW p \in LitsOf(s), Value(s, p) = Undef, NEW from, NEW t, t = Enqueue(s, p, from)
  PROVE  /\ Assigns(s, t, p, from, DecisionLevel(s)) /\ t.watches = s.watches /\ t.order = s.order
         /\ t.ok = s.ok /\ t.unitId = s.unitId /\ t.log = s.log /\ t.qhead = s.qhead /\ t.lits = s.lits
<1>1. Enqueued(s, t, p, from)
  BY Types, EnqueueIs
<1>2. s.ok \in BOOLEAN /\ s.unitId \in [Vars(s) -> Nat] /\ s.log \in Seq(Range(s.log)) /\ LastId(s) \in Nat
  BY Types DEF Coherent, Typed
<1>3. QED
  BY <1>1, <1>2 DEF Enqueued, Assigns, LastId

\* The first literal is implied.
LEMMA AssignedWalks ==
  ASSUME NEW s, NEW p \in LitsOf(s), NEW k, NEW u, NEW kept, Walking(s, p, k, u, kept),
         u.qhead = s.qhead + 1, u.ok = s.ok, s.qhead \in Nat, LevelStart(s) \in Nat, LevelStart(s) <= s.qhead,
         NEW c \in DOMAIN u.lits, u.lits[c][2] = Neg(p),
         Value(u, u.lits[c][1]) = Undef, \A i \in 2 .. Len(u.lits[c]) : IsFalse(u, u.lits[c][i]),
         \A e \in DOMAIN u.lits : e # c => Awake(u, e, s.qhead + 1, Pending(s.watches[p], k)),
         NEW t, t = Enqueue(u, u.lits[c][1], c)
  PROVE  Walked(s, p, k, t, kept, NoClause)
<1> DEFINE ws == s.watches[p]
           x == u.lits[c][1]
           R == Mixed(u, p, kept, Pending(ws, k))
           Q == Mixed(t, p, kept, Pending(ws, k))
<1>1. /\ Coherent(u) /\ Extends(s, u) /\ Dequeues(s, p, u) /\ u.watches[p] = ws /\ Lists(u, u.watches)
      /\ Kept(kept, ws, k) /\ Covers(u, R)
  BY DEF Walking
<1>2. /\ LitsOf(u) = LitsOf(s) /\ DecisionLevel(u) = DecisionLevel(s) /\ LevelStart(u) = LevelStart(s)
  BY <1>1, ExtendsIs
<1>3. /\ c \in Nat /\ c # NoClause /\ Len(u.lits[c]) \in Nat /\ Len(u.lits[c]) >= 2
      /\ x \in LitsOf(u) /\ Var(x) # Var(Neg(p))
  BY <1>1, LitsOfClause
<1>4. Var(Neg(p)) = Var(p) /\ p \in LitsOf(u) /\ Neg(p) \in LitsOf(u)
  BY <1>1, <1>2, Types
<1>5. Value(u, p) = True /\ At(u, p) = s.qhead
  BY <1>1 DEF Dequeues
<1> HIDE DEF ws, x, R
<1>6. /\ Assigns(u, t, x, c, DecisionLevel(u)) /\ t.watches = u.watches /\ t.order = u.order
      /\ t.ok = u.ok /\ t.qhead = u.qhead /\ t.lits = u.lits
  <2>1. Value(u, x) = Undef /\ t = Enqueue(u, x, c)
    BY DEF x
  <2>2. QED
    BY <1>1, <1>3, <2>1, EnqueueAssigns
<1>7. DecisionLevel(u) \in Nat
  BY <1>1, Types
<1>8. /\ Vars(t) = Vars(u) /\ LitsOf(t) = LitsOf(u) /\ NAssigns(t) = NAssigns(u) + 1
      /\ DecisionLevel(t) = DecisionLevel(u) /\ LevelStart(t) = LevelStart(u)
      /\ Value(t, x) = True /\ t.assigns[Var(x)] # Undef
      /\ \A v \in Vars(u) : v # Var(x) => t.assigns[v] = u.assigns[v]
      /\ \A q \in LitsOf(u) : Var(q) # Var(x) => Value(t, q) = Value(u, q) /\ At(t, q) = At(u, q)
  <2>1. Value(u, x) = Undef
    BY DEF x
  <2>2. QED
    BY <1>1, <1>3, <1>6, <1>7, <2>1, AssignsIs
<1>9. u.level[Var(p)] = DecisionLevel(u) \/ ~(DecisionLevel(u) > u.rootLevel)
  <2>1. u.assigns[Var(p)] # Undef /\ Var(p) \in Vars(u) /\ u.trailPos[Var(p)] >= LevelStart(u)
    <3>1. Value(u, p) # Undef
      BY <1>5 DEF True, Undef
    <3>2. u.assigns[Var(p)] # Undef /\ Var(p) \in Vars(u)
      BY <1>1, <1>4, <3>1, OnTrail, Types
    <3>3. QED
      BY <1>2, <1>5, <3>2 DEF At
  <2>2. QED
    BY <1>1, <2>1, OfLastLevel
<1>10. /\ Coherent(t) /\ (\A A : Covers(u, A) => Covers(t, A)) /\ (\A w : Lists(u, w) => Lists(t, w))
       /\ \A e \in DOMAIN u.lits : \A h \in 0 .. NAssigns(u) : \A late : Awake(u, e, h, late) => Awake(t, e, h, late)
  <2>1. /\ Value(u, x) = Undef /\ u.lits[c][1] = x /\ \A i \in 2 .. Len(u.lits[c]) : IsFalse(u, u.lits[c][i])
    BY DEF x
  <2>2. DecisionLevel(u) = 0 => DecisionLevel(u) <= u.rootLevel
    BY <1>1, Types
  <2>3. DecisionLevel(u) > u.rootLevel => \E i \in 2 .. Len(u.lits[c]) : u.level[Var(u.lits[c][i])] = DecisionLevel(u)
    <3>1. 2 \in 2 .. Len(u.lits[c])
      BY <1>3
    <3>2. QED
      BY <1>4, <1>9, <3>1
  <2> DEFINE lev == DecisionLevel(u)
  <2>4. /\ Coherent(u) /\ x \in LitsOf(u) /\ c \in Nat /\ lev \in {0, DecisionLevel(u)} /\ (lev = 0 => DecisionLevel(u) <= u.rootLevel)
        /\ Assigns(u, t, x, c, lev)
    BY <1>1, <1>3, <1>6, <2>2
  <2>5. /\ c # NoClause
        /\ c # NoClause => /\ c \in DOMAIN u.lits /\ u.lits[c][1] = x
                           /\ \A i \in 2 .. Len(u.lits[c]) : IsFalse(u, u.lits[c][i])
                           /\ lev > u.rootLevel => \E i \in 2 .. Len(u.lits[c]) : u.level[Var(u.lits[c][i])] = lev
    BY <1>3, <2>1, <2>3
  <2>6. Value(u, x) = Undef
    BY <2>1
  <2>8. Justified(u, x, c, lev)
    BY <2>4, <2>5, <2>6 DEF Justified
  <2> HIDE DEF lev
  <2>9. QED
    BY <2>4, <2>8, AssignsKeeps
<1>11. Covers(t, Q)
  <2>1. \A q \in LitsOf(t) : Q[q] = R[q]
    BY <1>6, <1>8 DEF Mixed, R
  <2> HIDE DEF Q
  <2>2. Vars(t) \subseteq Nat
    BY <1>10, Types
  <2>3. DOMAIN t.lits \subseteq Nat /\ \A e \in DOMAIN t.lits : t.lits[e][1] \in LitsOf(t) /\ t.lits[e][2] \in LitsOf(t)
    BY <1>10, LitsOfClause
  <2>4. Covers(t, R)
    BY <1>1, <1>10
  <2>5. QED
    BY <2>1, <2>2, <2>3, <2>4, CoversSame
<1>12. Value(t, p) = True /\ At(t, p) = s.qhead /\ At(t, Neg(p)) = s.qhead
  <2>1. Value(t, p) = Value(u, p) /\ At(t, p) = At(u, p)
    BY <1>3, <1>4, <1>8
  <2>2. QED
    BY <1>4, <1>5, <2>1 DEF At
<1>13. Extends(s, t)
  <2>1. t.trailLim = u.trailLim /\ t.rootLevel = u.rootLevel /\ t.simpAssigns = u.simpAssigns
    BY <1>6 DEF Assigns
  <2>2. Unassigned(t) \subseteq Unassigned(u)
    BY <1>8 DEF Unassigned
  <2>3. QED
    BY <1>1, <1>6, <1>8, <2>1, <2>2 DEF Extends
<1>14. Walking(s, p, k, t, kept)
  <2>1. Lists(t, t.watches) /\ t.watches[p] = ws
    BY <1>1, <1>6, <1>10
  <2>2. Dequeues(s, p, t)
    BY <1>12 DEF Dequeues
  <2>3. QED
    BY <1>1, <1>10, <1>11, <1>13, <2>1, <2>2 DEF Walking, ws, Q
<1>15. s.qhead + 1 \in 0 .. NAssigns(u)
  BY <1>1, Starts, Types
<1>16. \A e \in DOMAIN t.lits : Awake(t, e, s.qhead + 1, Pending(ws, k))
  <2>1. ASSUME NEW e \in DOMAIN u.lits, e # c PROVE Awake(t, e, s.qhead + 1, Pending(ws, k))
    BY <1>10, <1>15, <2>1 DEF ws
  <2>2. Awake(t, c, s.qhead + 1, Pending(ws, k))
    <3>1. Value(t, t.lits[c][1]) = True /\ At(t, t.lits[c][2]) \in Int /\ At(t, t.lits[c][2]) >= LevelStart(t)
      BY <1>2, <1>6, <1>8, <1>12 DEF x
    <3>2. c \in DOMAIN t.lits
      BY <1>6
    <3>3. QED
      BY <1>10, <3>1, <3>2, AwakeTrue
  <2>3. QED
    BY <1>6, <2>1, <2>2
<1>17. InPeace(s, p, k, t)
  BY <1>6, <1>16 DEF InPeace, Watching, ws
<1>18. QED
  BY <1>14, <1>17 DEF Walked

\* A clause that is awake up to a place of the queue is so up to an earlier one.
LEMMA AwakeLess ==
  ASSUME NEW s, Coherent(s), NEW c \in DOMAIN s.lits, NEW h \in Nat, NEW late, Awake(s, c, h + 1, late),
         NEW n \in Nat, n <= h
  PROVE  Awake(s, c, n, {})
<1>1. ASSUME NEW i \in {1, 2}, IsFalse(s, s.lits[c][i]), At(s, s.lits[c][i]) < n
      PROVE  Guards(s, s.lits[c][3 - i], s.lits[c][i])
  <2>1. s.lits[c][i] \in LitsOf(s)
    BY LitsOfClause
  <2>2. Value(s, s.lits[c][i]) # Undef
    BY <1>1 DEF IsFalse, False, Undef
  <2>3. At(s, s.lits[c][i]) \in Nat
    BY <2>1, <2>2, OnTrail
  <2>4. At(s, s.lits[c][i]) < h + 1 /\ At(s, s.lits[c][i]) # (h + 1) - 1
    BY <1>1, <2>3
  <2>5. QED
    BY <1>1, <2>4 DEF Awake
<1>2. QED
  BY <1>1 DEF Awake

\* A clause all of whose literals are false.
LEMMA TroubleIs ==
  ASSUME NEW s, NEW p, NEW k, NEW u, NEW kept, Walking(s, p, k, u, kept),
         s.ok = u.ok, s.qhead \in Nat, LevelStart(s) \in Nat, LevelStart(s) <= s.qhead, s.ok \in BOOLEAN,
         NEW c \in DOMAIN u.lits, \A i \in DOMAIN u.lits[c] : IsFalse(u, u.lits[c][i]),
         \A i \in {1, 2} : At(u, u.lits[c][i]) >= LevelStart(u) /\ At(u, u.lits[c][i]) \in Nat,
         \A e \in DOMAIN u.lits : e # c => Awake(u, e, s.qhead + 1, Pending(s.watches[p], k)),
         NEW t, Conflicts(u, t)
  PROVE  Walking(s, p, k, t, kept) /\ InTrouble(s, t, c)
<1>1. Coherent(u) /\ Extends(s, u)
  BY DEF Walking
<1>2. LevelStart(u) = LevelStart(s) /\ DecisionLevel(u) = DecisionLevel(s)
  BY <1>1, ExtendsIs
<1>3. ASSUME NEW e \in DOMAIN u.lits PROVE Awake(u, e, LevelStart(u), {})
  <2>1. CASE e # c
    <3>1. Awake(u, e, s.qhead + 1, Pending(s.watches[p], k))
      BY <2>1
    <3>2. QED
      BY <1>1, <1>2, <3>1, AwakeLess
  <2>2. CASE e = c
    <3>1. \A i \in {1, 2} : ~(At(u, u.lits[c][i]) < LevelStart(u))
      BY <1>2
    <3>2. QED
      BY <2>2, <3>1 DEF Awake
  <2>3. QED
    BY <2>1, <2>2
<1>4. InConflict(u, c)
  BY <1>3 DEF InConflict, Watching
<1>5. /\ SameBut(u, t, {"qhead", "ok"}) /\ t.qhead = NAssigns(u) /\ t.ok = (u.ok /\ DecisionLevel(u) > 0)
  BY DEF Conflicts
<1>6. t.unitId = u.unitId /\ t.log = u.log /\ t.watches = u.watches /\ t.order = u.order
  BY <1>5, SMT DEF SameBut, Fields
<1>7. {"qhead", "ok"} \cap Fixtures = {}
  BY SMT DEF Fixtures
<1>8. Notes(u, t)
  <2>1. t.qhead \in u.qhead .. NAssigns(u)
    BY <1>1, <1>5, Starts, Types
  <2>2. u.unitId \in [Vars(u) -> Nat] /\ u.log \in Seq(Range(u.log)) /\ LastId(u) \in Nat /\ LastId(t) = LastId(u) /\ t.ok \in BOOLEAN
    BY <1>1, <1>5, <1>6, Types DEF Coherent, Typed, LastId
  <2> DEFINE F == {"qhead", "ok"}
  <2>3. SameBut(u, t, F) /\ F \cap Fixtures = {}
    BY <1>5, <1>7
  <2>4. t.unitId \in [Vars(u) -> Nat] /\ t.log \in Seq(Range(t.log)) /\ LastId(t) >= LastId(u) /\ t.ok \in BOOLEAN
    BY <1>6, <2>2
  <2> HIDE DEF F
  <2>5. QED
    BY <2>1, <2>3, <2>4, SameButNotes
<1>9. Walking(s, p, k, t, kept)
  BY <1>6, <1>8, NotesWalk
<1>10. InConflict(t, c)
  BY <1>4, <1>8, NotesKeep
<1>11. NAssigns(t) = NAssigns(u)
  BY <1>8, SameTrailIs DEF Notes
<1>12. QED
  BY <1>2, <1>5, <1>9, <1>10, <1>11 DEF InTrouble

\* The clause has no other literal to watch: its first literal is implied, or
\* it is in conflict.
LEMMA InferredWalks ==
  ASSUME NEW s, NEW p, NEW k, NEW u, NEW kept, NEW c, NEW ls, Looks(s, p, k, u, kept, c, ls),
         Value(u, ls[1]) # True, \A i \in 3 .. Len(ls) : IsFalse(u, ls[i]),
         NEW v, Written(u, v, c, ls), NEW w, w = LogUnit(v, c),
         NEW t, NEW confl,
         IF IsFalse(w, ls[1]) THEN Conflicts(w, t) /\ confl = c
         ELSE t = Enqueue(w, ls[1], c) /\ confl = NoClause
  PROVE  Walked(s, p, k, t, Longer(kept, c), confl)
<1> DEFINE g == Longer(kept, c)
<1>1. /\ Walking(s, p, k, v, g) /\ c \in DOMAIN v.lits /\ v.lits[c] = ls
      /\ \A e \in DOMAIN v.lits : e # c => Awake(v, e, s.qhead + 1, Pending(s.watches[p], k))
      /\ v.qhead = s.qhead + 1 /\ v.ok = s.ok /\ SameTrail(u, v) /\ Coherent(v)
      /\ \A q : Value(v, q) = Value(u, q) /\ At(v, q) = At(u, q)
  BY RewrittenWalks
<1> HIDE DEF g
<1>2. /\ Coherent(u) /\ p \in LitsOf(u) /\ c # NoClause /\ LitsOf(u) = LitsOf(s)
      /\ Len(ls) \in Nat /\ Len(ls) >= 2 /\ DOMAIN ls = 1 .. Len(ls) /\ ls[1] \in LitsOf(u)
      /\ ls[2] = Neg(p) /\ IsFalse(u, ls[2])
      /\ At(u, ls[2]) = s.qhead /\ LevelStart(u) = LevelStart(s)
      /\ IsFalse(u, ls[1]) => At(u, ls[1]) \in Nat /\ At(u, ls[1]) >= s.qhead + 1
  BY LooksIs
<1>3. s.qhead \in Nat /\ LevelStart(s) \in Nat /\ LevelStart(s) <= s.qhead /\ s.ok \in BOOLEAN /\ p \in LitsOf(s)
  BY DEF Looks, Ready
<1>4. Logged(v, w)
  BY <1>1, LogUnitLogs
<1>5. /\ Notes(v, w) /\ Coherent(w) /\ w.watches = v.watches /\ w.order = v.order /\ w.qhead = v.qhead
      /\ w.ok = v.ok /\ w.lits = v.lits
  BY <1>1, <1>4, LoggedNotes
<1>6. /\ \A q : Value(w, q) = Value(v, q) /\ (IsFalse(w, q) <=> IsFalse(v, q)) /\ At(w, q) = At(v, q)
      /\ LevelStart(w) = LevelStart(v) /\ LevelStart(v) = LevelStart(u)
  BY <1>1, <1>5, SameTrailIs DEF Notes
<1>7. Walking(s, p, k, w, g)
  BY <1>1, <1>5, NotesWalk
<1>8. \A e \in DOMAIN w.lits : e # c => Awake(w, e, s.qhead + 1, Pending(s.watches[p], k))
  BY <1>1, <1>5, NotesKeep
<1>9. \A i \in 2 .. Len(ls) : IsFalse(w, ls[i])
  <2>1. \A q : IsFalse(u, q) <=> IsFalse(w, q)
    BY <1>1, <1>6 DEF IsFalse
  <2>2. \A i \in 2 .. Len(ls) : i = 2 \/ i \in 3 .. Len(ls)
    BY <1>2
  <2>3. QED
    BY <1>2, <2>1, <2>2
<1>10. CASE IsFalse(w, ls[1])
  <2>1. Conflicts(w, t) /\ confl = c
    BY <1>10
  <2>2. \A i \in DOMAIN w.lits[c] : IsFalse(w, w.lits[c][i])
    <3>1. \A i \in 1 .. Len(ls) : i = 1 \/ i \in 2 .. Len(ls)
      BY <1>2
    <3>2. QED
      BY <1>1, <1>2, <1>5, <1>9, <1>10, <3>1
  <2>3. \A i \in {1, 2} : At(w, w.lits[c][i]) >= LevelStart(w) /\ At(w, w.lits[c][i]) \in Nat
    <3>1. IsFalse(u, ls[1])
      BY <1>1, <1>6, <1>10 DEF IsFalse
    <3>2. QED
      BY <1>1, <1>2, <1>3, <1>5, <1>6, <3>1
  <2>4. s.ok = w.ok /\ c \in DOMAIN w.lits
    BY <1>1, <1>5
  <2>5. Walking(s, p, k, t, g) /\ InTrouble(s, t, c)
    BY <1>3, <1>7, <1>8, <2>1, <2>2, <2>3, <2>4, TroubleIs
  <2>6. QED
    BY <1>2, <2>1, <2>5 DEF Walked, g
<1>11. CASE ~IsFalse(w, ls[1])
  <2>1. t = Enqueue(w, w.lits[c][1], c) /\ confl = NoClause
    BY <1>1, <1>5, <1>11
  <2>2. Value(w, w.lits[c][1]) = Undef
    <3>1. Value(u, ls[1]) = Undef
      <4>1. ~IsFalse(u, ls[1])
        BY <1>1, <1>6, <1>11 DEF IsFalse
      <4>2. Value(u, ls[1]) \in {True, False, Undef}
        BY <1>2, Types, Values
      <4>3. QED
        BY <4>1, <4>2 DEF IsFalse
    <3>2. QED
      BY <1>1, <1>5, <1>6, <3>1
  <2>3. w.qhead = s.qhead + 1 /\ w.ok = s.ok /\ c \in DOMAIN w.lits /\ w.lits[c][2] = Neg(p)
    BY <1>1, <1>2, <1>5
  <2>4. \A i \in 2 .. Len(w.lits[c]) : IsFalse(w, w.lits[c][i])
    BY <1>1, <1>5, <1>9
  <2>5. Walked(s, p, k, t, g, NoClause)
    BY <1>3, <1>7, <1>8, <2>1, <2>2, <2>3, <2>4, AssignedWalks
  <2>6. QED
    BY <2>1, <2>5 DEF g
<1>12. QED
  BY <1>10, <1>11

\* One clause of the list.
LEMMA VisitWalks ==
  ASSUME NEW s, NEW p, Ready(s, p), NEW k \in 1 .. Len(s.watches[p]),
         NEW r, IsVisit(r), Walked(s, p, k - 1, r.s, r.kept, r.confl),
         NEW c, c = s.watches[p][k], NEW t, t = Visit(r, p, c)
  PROVE  IsVisit(t) /\ Walked(s, p, k, t.s, t.kept, t.confl)
<1> DEFINE u == r.s
<1>1. Walking(s, p, k - 1, u, r.kept) /\ Coherent(u)
  BY DEF Walked, Walking
<1>2. Shaped(u)
  BY <1>1, Types
<1>3. CASE r.confl # NoClause
  <2>1. IsVisit(t) /\ t.s = u /\ t.kept = Longer(r.kept, c) /\ t.confl = r.confl
    BY <1>3, KeepIs DEF Visit
  <2>2. InTrouble(s, u, r.confl)
    BY <1>3 DEF Walked
  <2>3. Walking(s, p, k, u, Longer(r.kept, c))
    <3> HIDE DEF u
    <3>1. SameTrail(u, u) /\ u.watches = u.watches /\ u.order = u.order
      BY DEF SameTrail
    <3>2. Walking(s, p, k, u, Longer(r.kept, s.watches[p][k]))
      BY <1>1, <3>1, KeptWalks
    <3>3. QED
      BY <3>2
  <2>4. QED
    BY <1>3, <2>1, <2>2, <2>3 DEF Walked
<1>4. CASE r.confl = NoClause
  <2> DEFINE ls == FalseSecond(u.lits[c], Neg(p))
  <2>1. t = Examine(r, c, ls)
    BY <1>4 DEF Visit
  <2>2. Looks(s, p, k, u, r.kept, c, ls)
    BY <1>4 DEF Looks
  <2> HIDE DEF u, ls
  <2>3. Len(ls) \in Nat /\ Len(ls) >= 2 /\ DOMAIN ls = 1 .. Len(ls)
    BY <2>2, LooksIs
  <2>4. CASE Value(u, ls[1]) = True
    <3>1. t = KeptWith(r, c, ls)
      BY <2>1, <2>4 DEF Examine, u, KeptWith
    <3>2. IsVisit(t) /\ Written(u, t.s, c, ls) /\ t.kept = Longer(r.kept, c) /\ t.confl = r.confl
      BY <1>2, <3>1, SatisfiedIs DEF u
    <3>3. Walked(s, p, k, t.s, Longer(r.kept, c), NoClause)
      BY <2>2, <2>4, <3>2, SatisfiedWalks
    <3>4. QED
      BY <1>4, <3>2, <3>3
  <2>5. CASE Value(u, ls[1]) # True /\ NewWatches(u, ls) # {}
    <3> DEFINE m == Min(NewWatches(u, ls))
    <3>1. m \in 3 .. Len(ls) /\ ~IsFalse(u, ls[m])
      <4>1. NewWatches(u, ls) \in SUBSET (1 .. Len(ls))
        BY <2>3 DEF NewWatches
      <4>2. m \in NewWatches(u, ls)
        BY <2>3, <2>5, <4>1, HasExtremes
      <4>3. QED
        BY <4>2 DEF NewWatches
    <3>2. t = [r EXCEPT !.s = MoveWatch(u, c, ls, m)]
      BY <2>1, <2>5 DEF Examine, u
    <3> HIDE DEF m
    <3>3. IsVisit(t) /\ t.s = MoveWatch(u, c, ls, m) /\ t.kept = r.kept /\ t.confl = r.confl
      BY <3>2, MovedIs
    <3>4. Moved(u, t.s, c, ls, m)
      BY <1>2, <3>3, MoveWatchIs
    <3>5. Walked(s, p, k, t.s, r.kept, NoClause)
      BY <2>2, <2>5, <3>1, <3>4, MovedWalks
    <3>6. QED
      BY <1>4, <3>3, <3>5
  <2>6. CASE Value(u, ls[1]) # True /\ NewWatches(u, ls) = {}
    <3> DEFINE v == [u EXCEPT !.lits[c] = ls]
               w == LogUnit(v, c)
               x == [Keep(r, c) EXCEPT !.s = w]
    <3>1. t = Infer(x, c, ls[1])
      BY <2>1, <2>6 DEF Examine, u
    <3>2. Written(u, v, c, ls)
      BY <1>2, WriteIs
    <3> HIDE DEF v, w
    <3>3. IsVisit(x) /\ x.s = w /\ x.kept = Longer(r.kept, c) /\ x.confl = NoClause
      <4>1. /\ IsVisit(Keep(r, c)) /\ Keep(r, c).kept = Longer(r.kept, c) /\ Keep(r, c).confl = r.confl
        BY KeepIs
      <4> DEFINE y == Keep(r, c)
      <4>2. IsVisit(y) /\ y.kept = Longer(r.kept, c) /\ y.confl = r.confl
        BY <4>1
      <4> HIDE DEF y
      <4>3. x = [y EXCEPT !.s = w]
        BY DEF y
      <4> HIDE DEF x
      <4>4. IsVisit(x) /\ x.s = w /\ x.kept = y.kept /\ x.confl = y.confl
        BY <4>2, <4>3 DEF IsVisit
      <4>5. QED
        BY <1>4, <4>2, <4>4
    <3> HIDE DEF x
    <3>4. Shaped(w)
      <4>1. Coherent(v) /\ c \in DOMAIN v.lits
        BY <2>2, <3>2, RewrittenWalks
      <4>2. Logged(v, w)
        BY <4>1, LogUnitLogs DEF w
      <4>3. QED
        BY <4>2 DEF Logged
    <3>5. /\ IsVisit(t) /\ t.kept = x.kept
          /\ IF IsFalse(w, ls[1]) THEN Conflicts(w, t.s) /\ t.confl = c
             ELSE t.s = Enqueue(w, ls[1], c) /\ t.confl = NoClause
      BY <3>1, <3>3, <3>4, InferIs
    <3>6. \A i \in 3 .. Len(ls) : IsFalse(u, ls[i])
      BY <2>6 DEF NewWatches
    <3>7. Walked(s, p, k, t.s, Longer(r.kept, c), t.confl)
      <4>1. Value(u, ls[1]) # True /\ w = LogUnit(v, c)
        BY <2>6 DEF w
      <4>2. IF IsFalse(w, ls[1]) THEN Conflicts(w, t.s) /\ t.confl = c
            ELSE t.s = Enqueue(w, ls[1], c) /\ t.confl = NoClause
        BY <3>5
      <4>3. QED
        BY <2>2, <3>2, <3>6, <4>1, <4>2, InferredWalks
    <3>8. QED
      BY <3>3, <3>5, <3>7
  <2>7. QED
    BY <2>4, <2>5, <2>6
<1>5. QED
  BY <1>3, <1>4

\* The next literal of the queue.
Queues(s, p) == s.qhead < NAssigns(s) /\ p = s.trail[s.qhead + 1]

\* The literal that is taken off the queue is true and not propagated yet.
LEMMA NextIs ==
  ASSUME NEW s, Sound(s), NEW p, Queues(s, p)
  PROVE  /\ Ready(s, p) /\ p \in LitsOf(s) /\ Value(s, p) = True /\ At(s, p) = s.qhead
         /\ s.qhead + 1 \in s.qhead .. NAssigns(s) /\ s.watches[p] \in Seq(Nat)
<1>1. Coherent(s) /\ Lists(s, s.watches)
  BY DEF Sound, Listed
<1>2. /\ s.qhead \in Nat /\ NAssigns(s) \in Nat /\ LevelStart(s) \in Nat /\ LevelStart(s) <= s.qhead
      /\ s.trail \in Seq(LitsOf(s)) /\ DOMAIN s.trail = 1 .. NAssigns(s) /\ s.ok \in BOOLEAN
  BY <1>1, Types, Starts DEF Coherent, Typed
<1>3. s.qhead + 1 \in 1 .. NAssigns(s)
  BY <1>2 DEF Queues
<1>4. p \in LitsOf(s)
  BY <1>2, <1>3 DEF Queues
<1>5. Value(s, p) = True /\ At(s, p) = s.qhead
  BY <1>1, <1>2, <1>3 DEF Queues, Coherent, Trailed
<1>6. Distinct(s.watches[p])
  BY <1>1, <1>4 DEF Lists, Distinct
<1>7. QED
  BY <1>2, <1>3, <1>4, <1>5, <1>6 DEF Ready, Distinct

\* The clauses of the list of p are late: the others of which p falsified a
\* watch are satisfied by the literal that simplifyDB saw settled.
LEMMA StartWatching ==
  ASSUME NEW s, Sound(s), NEW p, Queues(s, p), Watching(s, s.qhead, {})
  PROVE  Watching(s, s.qhead + 1, Range(s.watches[p]))
<1>1. /\ Coherent(s) /\ Covers(s, Places(s.watches)) /\ Lists(s, s.watches)
  BY DEF Sound, Listed
<1>2. /\ p \in LitsOf(s) /\ Value(s, p) = True /\ At(s, p) = s.qhead /\ s.qhead \in Nat
  BY NextIs DEF Ready
<1>3. ASSUME NEW e \in DOMAIN s.lits, NEW i \in {1, 2}, IsFalse(s, s.lits[e][i]), At(s, s.lits[e][i]) < s.qhead + 1,
             e \in Range(s.watches[p]) => At(s, s.lits[e][i]) # (s.qhead + 1) - 1
      PROVE  Guards(s, s.lits[e][3 - i], s.lits[e][i])
  <2> DEFINE q == s.lits[e][i]
             x == s.lits[e][3 - i]
  <2>1. q \in LitsOf(s) /\ Value(s, q) # Undef /\ Value(s, q) = False
    <3>1. s.lits[e][i] \in LitsOf(s)
      BY <1>1, LitsOfClause
    <3>2. QED
      BY <1>3, <3>1 DEF IsFalse, False, Undef
  <2>2. At(s, q) \in Nat
    BY <1>1, <2>1, OnTrail
  <2>3. CASE At(s, q) < s.qhead
    <3>1. Awake(s, e, s.qhead, {})
      BY DEF Watching
    <3>2. QED
      BY <1>3, <2>3, <3>1 DEF Awake
  <2>4. CASE At(s, q) = s.qhead
    <3>1. e \notin Range(s.watches[p])
      BY <1>2, <1>3, <2>4
    <3>2. Var(q) = Var(p)
      <4>1. Value(s, p) # Undef
        BY <1>2 DEF True, Undef
      <4>2. At(s, q) = At(s, p)
        BY <1>2, <2>4
      <4> HIDE DEF q
      <4>3. QED
        BY <1>1, <1>2, <2>1, <4>1, <4>2, SamePlace
    <3>3. Neg(q) = p
      <4> HIDE DEF q
      <4>1. q \in Nat /\ p \in Nat /\ (p = q \/ p = Neg(q))
        BY <1>2, <2>1, <3>2, SameVar DEF LitsOf
      <4>2. p # q
        BY <1>2, <2>1 DEF True, False
      <4>3. QED
        BY <4>1, <4>2
    <3>4. Places(s.watches)[p] = Range(s.watches[p])
      BY <1>1, <1>2 DEF Places, Lists
    <3>5. Fixed(s, e)
      BY <1>1, <3>1, <3>3, <3>4 DEF Covers
    <3>6. Value(s, s.lits[e][1]) = True
      BY <1>1, <3>5, LockedIs DEF Fixed, Implies
    <3>7. i = 2 /\ Value(s, x) = True
      BY <2>1, <3>6 DEF True, False
    <3>8. Outlives(s, x, q)
      <4>1. At(s, q) >= LevelStart(s) /\ At(s, q) \in Int
        BY <1>1, <1>2, <2>2, <2>4, Starts
      <4> HIDE DEF x, q
      <4>2. QED
        BY <1>1, <4>1, OutlivesLast
    <3>9. QED
      BY <3>7, <3>8 DEF Guards
  <2>5. QED
    BY <1>2, <1>3, <2>2, <2>3, <2>4
<1>4. QED
  BY <1>3 DEF Watching, Awake

\* The literal is taken off the queue.
LEMMA StartWalks ==
  ASSUME NEW s, Sound(s), NEW p, Queues(s, p), Watching(s, s.qhead, {}), NEW none, none = <<>>,
         NEW u, SameBut(s, u, {"qhead"}), u.qhead = s.qhead + 1
  PROVE  Walked(s, p, 0, u, none, NoClause)
<1> DEFINE ws == s.watches[p]
           Q == Mixed(u, p, none, Pending(ws, 0))
           R == Places(s.watches)
<1>1. /\ Coherent(s) /\ Covers(s, R) /\ Lists(s, s.watches) /\ Unassigned(s) \subseteq s.order
  BY DEF Sound, Listed
<1>2. /\ Ready(s, p) /\ p \in LitsOf(s) /\ Value(s, p) = True /\ At(s, p) = s.qhead
      /\ s.qhead + 1 \in s.qhead .. NAssigns(s) /\ ws \in Seq(Nat)
  BY NextIs
<1>3. /\ u.watches = s.watches /\ u.order = s.order /\ u.ok = s.ok /\ u.unitId = s.unitId /\ u.log = s.log
  BY SMT DEF SameBut, Fields
<1>4. Notes(s, u)
  <2> DEFINE F == {"qhead"}
  <2>1. SameBut(s, u, F) /\ F \cap Fixtures = {}
    BY SMT DEF Fixtures
  <2>2. /\ u.unitId \in [Vars(s) -> Nat] /\ u.log \in Seq(Range(u.log)) /\ LastId(u) >= LastId(s) /\ u.ok \in BOOLEAN
        /\ u.qhead \in s.qhead .. NAssigns(s)
    BY <1>1, <1>2, <1>3, Types DEF Coherent, Typed, LastId
  <2> HIDE DEF F
  <2>3. QED
    BY <2>1, <2>2, SameButNotes
<1>5. /\ Coherent(u) /\ (\A A : Covers(s, A) => Covers(u, A)) /\ (\A w : Lists(s, w) => Lists(u, w))
      /\ \A h, late : Watching(s, h, late) => Watching(u, h, late)
  BY <1>1, <1>4, NotesKeep
<1>6. SameTrail(s, u)
  BY <1>4 DEF Notes
<1>7. LitsOf(u) = LitsOf(s) /\ Vars(u) = Vars(s) /\ Unassigned(u) = Unassigned(s) /\ Value(u, p) = Value(s, p) /\ At(u, p) = At(s, p)
  BY <1>6, SameTrailIs
<1>8. Range(none) = {} /\ Pending(ws, 0) = Range(ws)
  <2>1. DOMAIN ws = 1 .. Len(ws) /\ 0 + 1 = 1
    BY <1>2, LenProperties
  <2>2. DOMAIN none = {}
    OBVIOUS
  <2>3. QED
    BY <2>1, <2>2 DEF Range, Pending
<1>9. \A q \in LitsOf(u) : Q[q] = R[q]
  BY <1>1, <1>3, <1>7, <1>8 DEF Mixed, Places, Lists
<1>10. Covers(u, Q)
  <2> HIDE DEF Q, R
  <2>1. Vars(u) \subseteq Nat
    BY <1>5, Types
  <2>2. DOMAIN u.lits \subseteq Nat /\ \A e \in DOMAIN u.lits : u.lits[e][1] \in LitsOf(u) /\ u.lits[e][2] \in LitsOf(u)
    BY <1>5, LitsOfClause
  <2>3. Covers(u, R)
    BY <1>1, <1>5
  <2>4. QED
    BY <1>9, <2>1, <2>2, <2>3, CoversSame
<1>11. Kept(none, ws, 0)
  <2>1. none \in Seq(Nat)
    OBVIOUS
  <2>2. DOMAIN none = {}
    OBVIOUS
  <2>3. QED
    BY <1>8, <2>1, <2>2 DEF Kept
<1>12. Extends(s, u)
  BY <1>3, <1>6, <1>7 DEF Extends, SameTrail
<1>13. Walking(s, p, 0, u, none)
  <2>1. Lists(u, u.watches) /\ u.watches[p] = ws
    BY <1>1, <1>3, <1>5
  <2>2. Dequeues(s, p, u)
    BY <1>2, <1>7 DEF Dequeues
  <2>3. QED
    BY <1>5, <1>10, <1>11, <1>12, <2>1, <2>2 DEF Walking, Q, ws
<1>14. InPeace(s, p, 0, u)
  <2>1. Watching(u, s.qhead + 1, Range(ws))
    BY <1>5, StartWatching
  <2>2. QED
    BY <1>3, <1>8, <2>1 DEF InPeace, ws
<1>15. QED
  BY <1>13, <1>14 DEF Walked

-----------------------------------------------------------------------------
(***************************************************************************)
(* propagate, one literal of the queue, and the whole queue.               *)
(***************************************************************************)
IsReply(r) == DOMAIN r = {"s", "confl"}

\* What propagate does with one literal.
Advances(s, t, confl) ==
    /\ Sound(t) /\ Extends(s, t)
    /\ IF confl = NoClause THEN t.qhead = s.qhead + 1 /\ t.ok = s.ok /\ Watching(t, t.qhead, {})
       ELSE InTrouble(s, t, confl)

\* The whole list is walked.
LEMMA ListWalks ==
  ASSUME NEW s, Sound(s), NEW p, Queues(s, p), Watching(s, s.qhead, {}),
         NEW n, n = Len(s.watches[p]), NEW r, r = Visits(s, p)[n]
  PROVE  n \in Nat /\ IsVisit(r) /\ Walked(s, p, n, r.s, r.kept, r.confl)
<1> DEFINE f == Visits(s, p)
           ok(x, k) == IsVisit(x) /\ Walked(s, p, k, x.s, x.kept, x.confl)
           P == {k \in 0 .. n : ok(f[k], k)}
<1>1. Ready(s, p) /\ n \in Nat
  BY NextIs, LenProperties
<1>2. f[0] = Dequeued(s) /\ \A k \in 1 .. n : f[k] = Visit(f[k - 1], p, s.watches[p][k])
  BY <1>1, VisitSteps
<1>3. Shaped(s) /\ s.qhead \in Nat
  BY Types DEF Sound
<1> HIDE DEF f
<1>4. 0 \in P
  <2> DEFINE u == [s EXCEPT !.qhead = s.qhead + 1]
  <2>1. IsVisit(f[0]) /\ f[0].s = u /\ f[0].kept = <<>> /\ f[0].confl = NoClause
    BY <1>2 DEF Dequeued, IsVisit
  <2>2. SameBut(s, u, {"qhead"}) /\ u.qhead = s.qhead + 1
    BY <1>3, QheadIs
  <2> HIDE DEF u
  <2> DEFINE none == f[0].kept
  <2>3. none = <<>>
    BY <2>1
  <2> HIDE DEF none
  <2>4. Walked(s, p, 0, u, none, NoClause)
    BY <2>2, <2>3, StartWalks
  <2>5. ok(f[0], 0)
    BY <2>1, <2>4 DEF none
  <2> HIDE DEF ok
  <2>6. QED
    BY <1>1, <2>5
<1>5. ASSUME NEW k \in Nat, k \in P /\ k < n PROVE k + 1 \in P
  <2>1. k + 1 \in 1 .. n /\ (k + 1) - 1 = k /\ k + 1 \in 0 .. n
    BY <1>1, <1>5
  <2> DEFINE m == k + 1
             r1 == f[m - 1]
             t == f[m]
             c == s.watches[p][m]
  <2>2. t = Visit(r1, p, c)
    BY <1>2, <2>1
  <2>3. IsVisit(r1) /\ Walked(s, p, m - 1, r1.s, r1.kept, r1.confl)
    BY <1>5, <2>1
  <2>4. m \in 1 .. Len(s.watches[p])
    BY <2>1
  <2>5. c = s.watches[p][m]
    OBVIOUS
  <2> HIDE DEF m, r1, t, c
  <2>6. IsVisit(t) /\ Walked(s, p, m, t.s, t.kept, t.confl)
    BY <1>1, <2>2, <2>3, <2>4, <2>5, VisitWalks
  <2>7. ok(f[k + 1], k + 1)
    BY <2>6 DEF t, m
  <2> HIDE DEF ok
  <2>8. QED
    BY <2>1, <2>7
<1>6. n \in P
  <2> HIDE DEF P
  <2>1. \A k \in 0 .. n : k \in P
    BY <1>1, <1>4, <1>5, UpTo
  <2>2. QED
    BY <1>1, <2>1
<1>7. QED
  BY <1>1, <1>6 DEF f

\* The list is put back.
LEMMA RelistKeeps ==
  ASSUME NEW s, NEW p \in LitsOf(s), NEW n \in Nat, n = Len(s.watches[p]), Unassigned(s) \subseteq s.order,
         NEW u, NEW kept, Walking(s, p, n, u, kept), NEW t, t = PutBack(u, p, kept)
  PROVE  /\ Sound(t) /\ Extends(s, t) /\ t.qhead = u.qhead /\ t.ok = u.ok /\ NAssigns(t) = NAssigns(u)
         /\ \A h, late : Watching(u, h, late) => Watching(t, h, late)
         /\ \A c : InConflict(u, c) => InConflict(t, c)
<1> DEFINE Q == Mixed(u, p, kept, Pending(s.watches[p], n))
           w == u.watches
<1>1. /\ Coherent(u) /\ Extends(s, u) /\ Lists(u, w) /\ Kept(kept, s.watches[p], n) /\ Covers(u, Q)
  BY DEF Walking
<1>2. /\ Shaped(u) /\ Vars(u) \subseteq Nat /\ u.log \in Seq(Range(u.log)) /\ LastId(u) \in Nat
      /\ p \in LitsOf(u) /\ kept \in Seq(Nat) /\ w \in [LitsOf(u) -> Seq(Nat)]
  BY <1>1, Types, ExtendsIs DEF Kept, Lists
<1>3. /\ SameBut(u, t, {"watches"}) /\ t.watches \in [LitsOf(u) -> Seq(Nat)] /\ t.watches[p] = kept
      /\ \A q \in LitsOf(u) : q # p => t.watches[q] = w[q]
  <2> HIDE DEF Q
  <2>1. Relisted(u, t, p, kept)
    BY <1>1, <1>2, RelistIs
  <2>2. QED
    BY <2>1 DEF Relisted
<1>4. /\ t.order = u.order /\ t.ok = u.ok /\ t.unitId = u.unitId /\ t.log = u.log /\ t.qhead = u.qhead
  BY <1>3, SMT DEF SameBut, Fields
<1>5. Notes(u, t)
  <2> DEFINE F == {"watches"}
  <2>1. SameBut(u, t, F) /\ F \cap Fixtures = {}
    BY <1>3, SMT DEF Fixtures
  <2>2. t.unitId \in [Vars(u) -> Nat] /\ t.log \in Seq(Range(t.log)) /\ LastId(t) >= LastId(u) /\ t.ok \in BOOLEAN /\ t.qhead = u.qhead
    BY <1>1, <1>2, <1>4 DEF Coherent, Typed, LastId
  <2> HIDE DEF F
  <2>3. QED
    BY <2>1, <2>2, SameButNotes
<1>6. /\ Coherent(t) /\ (\A A : Covers(u, A) => Covers(t, A)) /\ (\A v : Lists(u, v) => Lists(t, v))
      /\ (\A h, late : Watching(u, h, late) => Watching(t, h, late)) /\ (\A c : InConflict(u, c) => InConflict(t, c))
  BY <1>1, <1>5, NotesKeep
<1>7. SameTrail(u, t)
  BY <1>5 DEF Notes
<1>8. LitsOf(t) = LitsOf(u) /\ Vars(t) = Vars(u) /\ Unassigned(t) = Unassigned(u) /\ NAssigns(t) = NAssigns(u)
  BY <1>7, SameTrailIs
<1>9. Extends(s, t)
  BY <1>1, <1>4, <1>7, SameTrailExtends
<1>10. Lists(t, t.watches)
  <2>1. \A i, j \in DOMAIN kept : kept[i] = kept[j] => i = j
    BY <1>1 DEF Kept
  <2>2. ASSUME NEW q \in LitsOf(u) PROVE \A i, j \in DOMAIN t.watches[q] : t.watches[q][i] = t.watches[q][j] => i = j
    <3>1. CASE q = p
      BY <1>3, <2>1, <3>1
    <3>2. CASE q # p
      <4>1. \A i, j \in DOMAIN w[q] : w[q][i] = w[q][j] => i = j
        BY <1>1 DEF Lists
      <4>2. t.watches[q] = w[q]
        BY <1>3, <3>2
      <4> HIDE DEF w
      <4>3. QED
        BY <4>1, <4>2
    <3>3. QED
      BY <3>1, <3>2
  <2>3. QED
    BY <1>3, <1>8, <2>2 DEF Lists
<1>11. Covers(t, Places(t.watches))
  <2>1. Pending(s.watches[p], n) = {}
    BY DEF Pending
  <2>2. \A q \in LitsOf(t) : Places(t.watches)[q] = Q[q]
    <3>1. ASSUME NEW q \in LitsOf(t) PROVE Places(t.watches)[q] = Q[q]
      <4>1. q \in LitsOf(u) /\ DOMAIN t.watches = LitsOf(u)
        BY <1>3, <1>8
      <4>2. Places(t.watches)[q] = Range(t.watches[q])
        BY <4>1 DEF Places
      <4>3. Q[q] = IF q = p THEN Range(kept) \cup Pending(s.watches[p], n) ELSE Range(w[q])
        BY <4>1 DEF Mixed
      <4> HIDE DEF Q, w
      <4>4. QED
        BY <1>3, <2>1, <4>1, <4>2, <4>3
    <3>2. QED
      BY <3>1
  <2> HIDE DEF Q
  <2>3. Vars(t) \subseteq Nat /\ Covers(t, Q)
    BY <1>1, <1>2, <1>6, <1>8
  <2>4. DOMAIN t.lits \subseteq Nat /\ \A e \in DOMAIN t.lits : t.lits[e][1] \in LitsOf(t) /\ t.lits[e][2] \in LitsOf(t)
    BY <1>6, LitsOfClause
  <2> DEFINE R == Places(t.watches)
  <2> HIDE DEF R
  <2>5. \A q \in LitsOf(t) : R[q] = Q[q]
    BY <2>2 DEF R
  <2>6. Covers(t, R)
    BY <2>3, <2>4, <2>5, CoversSame
  <2>7. QED
    BY <2>6 DEF R
<1>12. Unassigned(t) \subseteq t.order
  BY <1>1, <1>4, <1>8 DEF Extends
<1>13. QED
  BY <1>4, <1>6, <1>8, <1>9, <1>10, <1>11, <1>12 DEF Sound, Listed

\* One literal.
LEMMA LiteralPropagates ==
  ASSUME NEW s, Sound(s), NEW p, Queues(s, p), Watching(s, s.qhead, {}),
         NEW r, r = PropagateLit(s, p)
  PROVE  IsReply(r) /\ Advances(s, r.s, r.confl)
<1> DEFINE n == Len(s.watches[p])
           v == Visits(s, p)[n]
           u == v.s
           kept == v.kept
           confl == v.confl
           t == PutBack(u, p, kept)
<1>1. IsReply(r) /\ r.s = t /\ r.confl = confl
  BY DEF PropagateLit, Relist, IsReply, PutBack
<1>2. n \in Nat /\ Walked(s, p, n, u, kept, confl)
  BY ListWalks
<1>3. p \in LitsOf(s) /\ Unassigned(s) \subseteq s.order
  BY NextIs DEF Sound
<1>4. n = Len(s.watches[p]) /\ t = PutBack(u, p, kept)
  OBVIOUS
<1> HIDE DEF u, kept, confl, t
<1>5. Walking(s, p, n, u, kept)
  BY <1>2 DEF Walked
<1>6. /\ Sound(t) /\ Extends(s, t) /\ t.qhead = u.qhead /\ t.ok = u.ok /\ NAssigns(t) = NAssigns(u)
      /\ \A h, late : Watching(u, h, late) => Watching(t, h, late)
      /\ \A c : InConflict(u, c) => InConflict(t, c)
  BY <1>2, <1>3, <1>4, <1>5, RelistKeeps
<1>7. CASE confl = NoClause
  <2>1. u.qhead = s.qhead + 1 /\ u.ok = s.ok /\ Watching(u, s.qhead + 1, Pending(s.watches[p], n))
    BY <1>2, <1>7 DEF Walked, InPeace
  <2>2. Pending(s.watches[p], n) = {}
    BY <1>2 DEF Pending
  <2>3. Watching(t, t.qhead, {})
    BY <1>6, <2>1, <2>2
  <2>4. Advances(s, t, confl)
    BY <1>6, <1>7, <2>1, <2>3 DEF Advances
  <2>5. QED
    BY <1>1, <2>4
<1>8. CASE confl # NoClause
  <2>1. InTrouble(s, u, confl)
    BY <1>2, <1>8 DEF Walked
  <2>2. InTrouble(s, t, confl)
    BY <1>6, <2>1 DEF InTrouble
  <2>3. Advances(s, t, confl)
    BY <1>6, <1>8, <2>2 DEF Advances
  <2>4. QED
    BY <1>1, <2>3
<1>9. QED
  BY <1>7, <1>8

\* No more literals are on the trail than there are variables.
LEMMA TrailFits ==
  ASSUME NEW s, Coherent(s)
  PROVE  Cardinality(Vars(s)) \in Nat /\ NAssigns(s) <= Cardinality(Vars(s))
<1> DEFINE n == NAssigns(s)
           V == {Var(s.trail[i]) : i \in 1 .. n}
           f == [i \in 1 .. n |-> Var(s.trail[i])]
<1>1. /\ IsFiniteSet(Vars(s)) /\ n \in Nat /\ s.trail \in Seq(LitsOf(s)) /\ DOMAIN s.trail = 1 .. n
      /\ \A i \in 1 .. n : At(s, s.trail[i]) = i - 1
  BY Types DEF Coherent, Trailed
<1>2. \A i \in 1 .. n : s.trail[i] \in LitsOf(s)
  BY <1>1
<1>3. V \subseteq Vars(s)
  BY <1>2 DEF LitsOf
<1>4. \A i, j \in 1 .. n : Var(s.trail[i]) = Var(s.trail[j]) => i = j
  BY <1>1 DEF At
<1> HIDE DEF n
<1>5. IsFiniteSet(1 .. n) /\ Cardinality(1 .. n) = n
  BY <1>1, FS_Interval
<1>6. f \in Bijection(1 .. n, V)
  <2>1. f \in [1 .. n -> V] /\ \A i, j \in 1 .. n : f[i] = f[j] => i = j
    BY <1>4
  <2>2. \A v \in V : \E i \in 1 .. n : f[i] = v
    OBVIOUS
  <2> HIDE DEF f, V
  <2>3. QED
    BY <2>1, <2>2 DEF Bijection, Injection, Surjection, IsInjective
<1>7. Cardinality(V) = n
  BY <1>5, <1>6, FS_Bijection DEF ExistsBijection
<1>8. IsFiniteSet(V) /\ Cardinality(V) <= Cardinality(Vars(s)) /\ Cardinality(Vars(s)) \in Nat
  BY <1>1, <1>3, FS_Subset, FS_CardinalityType
<1>9. QED
  BY <1>7, <1>8 DEF n

\* What propagate has done after k rounds, and at its end.
Advanced(s, k, t, confl) ==
    /\ Sound(t) /\ Extends(s, t)
    /\ IF confl = NoClause
       THEN t.ok = s.ok /\ Watching(t, t.qhead, {}) /\ (t.qhead >= k \/ t.qhead = NAssigns(t))
       ELSE InTrouble(s, t, confl)
Propagated(s, t, confl) ==
    /\ Sound(t) /\ Extends(s, t) /\ t.qhead = NAssigns(t)
    /\ IF confl = NoClause THEN t.ok = s.ok /\ Watching(t, t.qhead, {})
       ELSE t.ok = (s.ok /\ DecisionLevel(s) > 0) /\ InConflict(t, confl)

\* What was left alone twice.
LEMMA ExtendsTwice ==
  ASSUME NEW s, NEW t, Extends(s, t), NEW u, Extends(t, u)
  PROVE  Extends(s, u)
BY DEF Extends

\* A round goes one literal further, or stops.
LEMMA RoundAdvances ==
  ASSUME NEW s, NEW k \in Nat, NEW r, IsReply(r), Advanced(s, k, r.s, r.confl), NEW t, t = Round(r)
  PROVE  IsReply(t) /\ Advanced(s, k + 1, t.s, t.confl)
<1> DEFINE u == r.s
           confl == r.confl
<1>1. Sound(u) /\ Coherent(u) /\ Extends(s, u)
  BY DEF Advanced, Sound
<1>2. u.qhead \in Nat /\ NAssigns(u) \in Nat /\ u.qhead <= NAssigns(u)
  BY <1>1, Types, Starts
<1>3. CASE u.qhead = NAssigns(u)
  <2>1. t = r
    BY <1>3 DEF Round
  <2>2. Advanced(s, k + 1, u, confl)
    BY <1>3 DEF Advanced
  <2>3. QED
    BY <2>1, <2>2
<1>4. CASE u.qhead # NAssigns(u)
  <2> DEFINE p == u.trail[u.qhead + 1]
  <2>1. confl = NoClause /\ u.ok = s.ok /\ Watching(u, u.qhead, {}) /\ u.qhead >= k
    BY <1>4 DEF Advanced, InTrouble
  <2>2. Queues(u, p) /\ t = PropagateLit(u, p)
    BY <1>2, <1>4 DEF Queues, Round
  <2> HIDE DEF u, p, confl
  <2>3. IsReply(t) /\ Advances(u, t.s, t.confl)
    BY <1>1, <2>1, <2>2, LiteralPropagates
  <2>4. Sound(t.s) /\ Extends(u, t.s) /\ Extends(s, t.s)
    BY <1>1, <2>3, ExtendsTwice DEF Advances
  <2>5. CASE t.confl = NoClause
    <3>1. t.s.qhead = u.qhead + 1 /\ t.s.ok = u.ok /\ Watching(t.s, t.s.qhead, {})
      BY <2>3, <2>5 DEF Advances
    <3>2. t.s.qhead >= k + 1
      BY <1>2, <2>1, <3>1
    <3>3. QED
      BY <2>1, <2>3, <2>4, <2>5, <3>1, <3>2 DEF Advanced
  <2>6. CASE t.confl # NoClause
    <3>1. InTrouble(u, t.s, t.confl)
      BY <2>3, <2>6 DEF Advances
    <3>2. DecisionLevel(u) = DecisionLevel(s)
      BY <1>1, ExtendsIs
    <3>3. InTrouble(s, t.s, t.confl)
      BY <2>1, <3>1, <3>2 DEF InTrouble
    <3>4. QED
      BY <2>3, <2>4, <2>6, <3>3 DEF Advanced
  <2>7. QED
    BY <2>5, <2>6
<1>5. QED
  BY <1>3, <1>4

\* propagate takes everything off its queue, or ends in a clause in conflict.
LEMMA PropagateEnds ==
  ASSUME NEW s, Sound(s), Watching(s, s.qhead, {}), NEW r, r = Propagate(s)
  PROVE  IsReply(r) /\ Propagated(s, r.s, r.confl)
<1> DEFINE n == Cardinality(Vars(s))
           f == Rounds(s)
           ok(x, k) == IsReply(x) /\ Advanced(s, k, x.s, x.confl)
           P == {k \in 0 .. n : ok(f[k], k)}
<1>1. Coherent(s) /\ n \in Nat
  BY TrailFits DEF Sound
<1>2. f[0] = Quiet(s) /\ \A k \in 1 .. n : f[k] = Round(f[k - 1])
  BY <1>1, RoundSteps
<1>3. s.qhead \in Nat /\ s.qhead >= 0
  BY <1>1, Types
<1> HIDE DEF f
<1>4. 0 \in P
  <2>1. IsReply(f[0]) /\ f[0].s = s /\ f[0].confl = NoClause
    BY <1>2 DEF Quiet, IsReply
  <2>2. Extends(s, s)
    BY DEF Extends
  <2>3. Advanced(s, 0, s, NoClause)
    BY <1>3, <2>2 DEF Advanced
  <2>4. QED
    BY <1>1, <2>1, <2>3
<1>5. ASSUME NEW k \in Nat, k \in P /\ k < n PROVE k + 1 \in P
  <2>1. k + 1 \in 1 .. n /\ (k + 1) - 1 = k /\ k + 1 \in 0 .. n
    BY <1>1, <1>5
  <2>2. f[k + 1] = Round(f[k])
    BY <1>2, <2>1
  <2>3. IsReply(f[k]) /\ Advanced(s, k, f[k].s, f[k].confl)
    BY <1>5
  <2> DEFINE t == f[k + 1]
  <2>4. t = Round(f[k])
    BY <2>2
  <2> HIDE DEF t
  <2>5. IsReply(t) /\ Advanced(s, k + 1, t.s, t.confl)
    BY <2>3, <2>4, RoundAdvances
  <2>6. QED
    BY <2>1, <2>5 DEF t
<1>6. n \in P
  <2> HIDE DEF P
  <2>1. \A k \in 0 .. n : k \in P
    BY <1>1, <1>4, <1>5, UpTo
  <2>2. QED
    BY <1>1, <2>1
<1>7. IsReply(r) /\ Advanced(s, n, r.s, r.confl)
  BY <1>6 DEF Propagate, f
<1> DEFINE t == r.s
           confl == r.confl
<1>8. Sound(t) /\ Extends(s, t) /\ Coherent(t)
  BY <1>7 DEF Advanced, Sound
<1>9. NAssigns(t) \in Nat /\ t.qhead \in Nat /\ t.qhead <= NAssigns(t) /\ NAssigns(t) <= n
  <2> HIDE DEF t
  <2>1. Vars(t) = Vars(s)
    BY <1>8 DEF Extends
  <2>2. QED
    BY <1>8, <2>1, Types, Starts, TrailFits
<1>10. Propagated(s, t, confl)
  <2> HIDE DEF t, confl
  <2>1. Advanced(s, n, t, confl)
    BY <1>7 DEF t, confl
  <2>2. CASE confl = NoClause
    <3>1. t.ok = s.ok /\ Watching(t, t.qhead, {}) /\ (t.qhead >= n \/ t.qhead = NAssigns(t))
      BY <2>1, <2>2 DEF Advanced
    <3>2. t.qhead = NAssigns(t)
      BY <1>1, <1>9, <3>1
    <3>3. QED
      BY <1>8, <2>2, <3>1, <3>2 DEF Propagated
  <2>3. CASE confl # NoClause
    BY <1>8, <2>1, <2>3 DEF Advanced, InTrouble, Propagated
  <2>4. QED
    BY <2>2, <2>3
<1>11. QED
  BY <1>7, <1>10

-----------------------------------------------------------------------------
(***************************************************************************)
(* simplifyDB, the conclusion of a conflict and the assumptions.           *)
(***************************************************************************)

\* With an empty queue propagate does nothing.
LEMMA PropagateIdles ==
  ASSUME NEW s, Coherent(s), s.qhead = NAssigns(s)
  PROVE  Propagate(s) = Quiet(s)
<1> DEFINE n == Cardinality(Vars(s))
           f == Rounds(s)
           P == {k \in 0 .. n : f[k] = Quiet(s)}
<1>1. n \in Nat
  BY TrailFits
<1>2. f[0] = Quiet(s) /\ \A k \in 1 .. n : f[k] = Round(f[k - 1])
  BY <1>1, RoundSteps
<1>3. Round(Quiet(s)) = Quiet(s)
  BY DEF Round, Quiet
<1> HIDE DEF f
<1>4. 0 \in P
  BY <1>1, <1>2
<1>5. ASSUME NEW k \in Nat, k \in P /\ k < n PROVE k + 1 \in P
  <2>1. k + 1 \in 1 .. n /\ (k + 1) - 1 = k /\ k + 1 \in 0 .. n
    BY <1>1, <1>5
  <2>2. f[k + 1] = Round(f[k])
    BY <1>2, <2>1
  <2>3. QED
    BY <1>3, <1>5, <2>1, <2>2
<1>6. n \in P
  <2> HIDE DEF P
  <2>1. \A k \in 0 .. n : k \in P
    BY <1>1, <1>4, <1>5, UpTo
  <2>2. QED
    BY <1>1, <2>1
<1>7. QED
  BY <1>6 DEF Propagate, f

\* Notes that change nothing else.
Remarked(s, t) ==
    /\ Notes(s, t) /\ t.watches = s.watches /\ t.order = s.order /\ t.qhead = s.qhead /\ t.ok = s.ok

\* Marks that the invariant does not read may change.
LEMMA RemarkedKeeps ==
  ASSUME NEW s, NEW t, Remarked(s, t)
  PROVE  /\ Coherent(s) => Coherent(t)
         /\ Sound(s) => Sound(t)
         /\ \A h, late : Watching(s, h, late) => Watching(t, h, late)
         /\ \A c : InConflict(s, c) => InConflict(t, c)
         /\ LitsOf(t) = LitsOf(s) /\ DecisionLevel(t) = DecisionLevel(s) /\ LevelStart(t) = LevelStart(s)
         /\ NAssigns(t) = NAssigns(s) /\ t.rootLevel = s.rootLevel /\ t.ok = s.ok /\ t.qhead = s.qhead
<1>1. Notes(s, t) /\ SameTrail(s, t) /\ t.rootLevel = s.rootLevel
  BY DEF Remarked, Notes, SameTrail
<1>2. Sound(s) => Unassigned(s) \subseteq t.order
  BY DEF Remarked, Sound
<1>3. QED
  BY <1>1, <1>2, NotesKeep, SameTrailIs DEF Remarked

\* Remarks of one kind.
LEMMA SameButRemarks ==
  ASSUME NEW s, Coherent(s), NEW t, NEW F, SameBut(s, t, F), F \subseteq {"model", "conflict", "conflictId", "conflicts"}
  PROVE  Remarked(s, t)
<1>1. F \cap Fixtures = {} /\ \A f \in {"qhead", "ok", "unitId", "log", "watches", "order"} : f \notin F
  BY SMT DEF Fixtures
<1>2. \A f \in {"qhead", "ok", "unitId", "log", "watches", "order"} : t[f] = s[f]
  <2>1. \A f \in {"qhead", "ok", "unitId", "log", "watches", "order"} : f \in Fields
    BY SMT DEF Fields
  <2>2. QED
    BY <1>1, <2>1 DEF SameBut
<1>3. /\ t.qhead = s.qhead /\ t.ok = s.ok /\ t.unitId = s.unitId /\ t.log = s.log /\ t.watches = s.watches
      /\ t.order = s.order
  BY <1>2
<1>4. t.ok \in BOOLEAN /\ t.unitId \in [Vars(s) -> Nat] /\ t.log \in Seq(Range(t.log)) /\ LastId(t) >= LastId(s)
  BY <1>3, Types DEF Coherent, Typed, LastId
<1>5. Notes(s, t)
  BY <1>1, <1>3, <1>4, SameButNotes
<1>6. QED
  BY <1>3, <1>5 DEF Remarked

\* A remark after the end of a chain.
LEMMA LoggedRemarks ==
  ASSUME NEW s, Coherent(s), NEW u, Logged(s, u), NEW t, Remarked(u, t)
  PROVE  Remarked(s, t)
<1>1. /\ Notes(s, u) /\ Coherent(u) /\ u.watches = s.watches /\ u.order = s.order /\ u.qhead = s.qhead
      /\ u.ok = s.ok /\ u.lits = s.lits /\ LastId(s) \in Nat
  BY LoggedNotes, Types
<1>2. Notes(u, t) /\ t.watches = u.watches /\ t.order = u.order /\ t.qhead = u.qhead /\ t.ok = u.ok
  BY DEF Remarked
<1>3. Vars(u) = Vars(s) /\ LastId(u) \in Nat /\ LastId(t) \in Nat
  <2>1. SameTrail(s, u)
    BY <1>1 DEF Notes
  <2>2. Coherent(t)
    BY <1>1, <1>2, NotesKeep
  <2>3. QED
    BY <1>1, <2>1, <2>2, SameTrailIs, Types
<1>4. SameTrail(s, t)
  BY <1>1, <1>2 DEF Notes, SameTrail
<1>5. t.lits = s.lits /\ t.clauses = s.clauses /\ t.learnts = s.learnts /\ LastId(t) >= LastId(s)
  BY <1>1, <1>2, <1>3 DEF Notes
<1>6. Shaped(t) /\ t.ok \in BOOLEAN /\ t.unitId \in [Vars(s) -> Nat] /\ t.log \in Seq(Range(t.log))
  BY <1>2, <1>3 DEF Notes
<1>7. Notes(s, t)
  BY <1>1, <1>2, <1>4, <1>5, <1>6 DEF Notes
<1>8. QED
  BY <1>1, <1>2, <1>7 DEF Remarked

\* analyzeFinal writes down what it finds, and no more.
LEMMA AnalyzeFinalRemarks ==
  ASSUME NEW s, Coherent(s), NEW confl, NEW skipFirst, NEW t, t = AnalyzeFinal(s, confl, skipFirst)
  PROVE  Remarked(s, t)
<1>1. CASE s.rootLevel = 0
  <2> DEFINE none == <<>>
             id == LastId(s)
             F == {"conflict", "conflictId"}
  <2>1. t = [s EXCEPT !.conflict = none, !.conflictId = id]
    BY <1>1 DEF AnalyzeFinal
  <2> HIDE DEF none, id
  <2>2. SameBut(s, t, F)
    BY <2>1, Types, ConflictIs
  <2>3. F \subseteq {"model", "conflict", "conflictId", "conflicts"}
    OBVIOUS
  <2> HIDE DEF F
  <2>4. QED
    BY <2>2, <2>3, SameButRemarks
<1>2. CASE s.rootLevel # 0
  <2> DEFINE f == Blamed(s, confl, IF skipFirst THEN AllButOne(s.lits[confl]) ELSE s.lits[confl])
             u == EndChain(s, f.chain)
             why == f.conflict
             id == ChainId(s, f.chain)
             F == {"conflict", "conflictId"}
  <2>1. t = Concluded(s, f)
    BY <1>2 DEF AnalyzeFinal
  <2>2. t = [u EXCEPT !.conflict = why, !.conflictId = id]
    BY <2>1 DEF Concluded
  <2>3. Logged(s, u)
    BY EndChainLogs
  <2> HIDE DEF u, why, id, f
  <2>4. Coherent(u) /\ Shaped(u)
    BY <2>3, LoggedNotes, Types
  <2>5. SameBut(u, t, F)
    BY <2>2, <2>4, ConflictIs
  <2>6. F \subseteq {"model", "conflict", "conflictId", "conflicts"}
    OBVIOUS
  <2> HIDE DEF F
  <2>7. Remarked(u, t)
    BY <2>4, <2>5, <2>6, SameButRemarks
  <2>8. QED
    BY <2>3, <2>7, LoggedRemarks
<1>3. QED
  BY <1>1, <1>2

\* The solver refuses further clauses.
LEMMA RefusedKeeps ==
  ASSUME NEW s, Sound(s), NEW t, t = [s EXCEPT !.ok = FALSE]
  PROVE  /\ Sound(t) /\ t.ok = FALSE /\ DecisionLevel(t) = DecisionLevel(s) /\ LitsOf(t) = LitsOf(s)
         /\ t.rootLevel = s.rootLevel /\ NAssigns(t) = NAssigns(s) /\ t.qhead = s.qhead
<1> DEFINE no == FALSE
           F == {"ok"}
<1>1. Coherent(s) /\ Unassigned(s) \subseteq s.order
  BY DEF Sound
<1>2. t = [s EXCEPT !.ok = no] /\ no \in BOOLEAN /\ no = FALSE
  OBVIOUS
<1> HIDE DEF no
<1>3. SameBut(s, t, F) /\ t.ok = no
  BY <1>1, <1>2, Types, OkIs
<1>4. /\ t.order = s.order /\ t.watches = s.watches /\ t.unitId = s.unitId /\ t.log = s.log /\ t.qhead = s.qhead
      /\ t.rootLevel = s.rootLevel
  BY <1>3, SMT DEF SameBut, Fields
<1>5. F \cap Fixtures = {}
  BY SMT DEF Fixtures
<1> HIDE DEF F
<1>6. t.unitId \in [Vars(s) -> Nat] /\ t.log \in Seq(Range(t.log)) /\ LastId(t) >= LastId(s) /\ t.ok \in BOOLEAN
  BY <1>1, <1>2, <1>3, <1>4, Types DEF Coherent, Typed, LastId
<1>7. Notes(s, t)
  BY <1>3, <1>4, <1>5, <1>6, SameButNotes
<1>8. Sound(t)
  BY <1>1, <1>4, <1>7, NotesKeep
<1>9. SameTrail(s, t)
  BY <1>7 DEF Notes
<1>10. QED
  BY <1>2, <1>3, <1>4, <1>8, <1>9, SameTrailIs

\* At level 0, propagate and remove what is satisfied.
LEMMA SimplifyKeeps ==
  ASSUME NEW s, Sound(s), DecisionLevel(s) = 0, s.ok => Watching(s, s.qhead, {}),
         NEW due, NEW t, t = SimplifyDB(s, due)
  PROVE  /\ Sound(t) /\ DecisionLevel(t) = 0 /\ LitsOf(t) = LitsOf(s) /\ t.rootLevel = s.rootLevel
         /\ t.ok => Watching(t, t.qhead, {}) /\ t.qhead = NAssigns(t)
         /\ s.ok /\ s.qhead = NAssigns(s) => t.ok
<1>1. CASE ~s.ok
  BY <1>1 DEF SimplifyDB
<1>2. CASE s.ok
  <2> DEFINE r == Propagate(s)
             u == r.s
             confl == r.confl
  <2>1. IsReply(r) /\ Propagated(s, u, confl)
    BY <1>2, PropagateEnds
  <2>2. t = Tidy(u, confl, due)
    BY <1>2 DEF SimplifyDB, TidyAfter
  <2>3. s.qhead = NAssigns(s) => confl = NoClause
    <3>1. Coherent(s)
      BY DEF Sound
    <3>2. s.qhead = NAssigns(s) => r = Quiet(s)
      BY <3>1, PropagateIdles
    <3>3. QED
      BY <3>2 DEF Quiet
  <2> HIDE DEF u, confl, r
  <2>4. Sound(u) /\ Extends(s, u) /\ u.qhead = NAssigns(u)
    BY <2>1 DEF Propagated
  <2>5. LitsOf(u) = LitsOf(s) /\ DecisionLevel(u) = 0 /\ u.rootLevel = s.rootLevel
    BY <2>4, ExtendsIs DEF Extends
  <2>6. CASE confl # NoClause
    <3>1. t = [u EXCEPT !.ok = FALSE]
      BY <2>2, <2>6 DEF Tidy
    <3>2. /\ Sound(t) /\ t.ok = FALSE /\ DecisionLevel(t) = DecisionLevel(u) /\ LitsOf(t) = LitsOf(u)
          /\ t.rootLevel = u.rootLevel
      BY <2>4, <3>1, RefusedKeeps
    <3>3. QED
      BY <2>3, <2>5, <2>6, <3>2
  <2>7. CASE confl = NoClause
    <3>1. u.ok = s.ok /\ Watching(u, u.qhead, {})
      BY <2>1, <2>7 DEF Propagated
    <3>2. CASE t = u
      BY <1>2, <2>4, <2>5, <3>1, <3>2
    <3>3. CASE t # u
      <4>1. t = DropSatisfied(ClearLists(u, NewlySettled(u)))
        BY <2>2, <2>7, <3>3 DEF Tidy
      <4>2. /\ Sound(t) /\ Watching(t, t.qhead, {}) /\ t.ok = u.ok /\ DecisionLevel(t) = 0
            /\ t.qhead = NAssigns(t) /\ LitsOf(t) = LitsOf(u) /\ t.rootLevel = u.rootLevel
        BY <2>4, <2>5, <3>1, <4>1, DropSatisfiedKeeps
      <4>3. QED
        BY <1>2, <2>5, <3>1, <4>2
    <3>4. QED
      BY <3>2, <3>3
  <2>8. QED
    BY <2>6, <2>7
<1>3. QED
  BY <1>1, <1>2

\* solve counts its assumptions while there are no levels.
Rooting(s, n) == [s EXCEPT !.rootLevel = n]

\* The root level may be set where no level is open.
LEMMA RootKeeps ==
  ASSUME NEW s, Sound(s), DecisionLevel(s) = 0, NEW n \in Nat, NEW t, t = Rooting(s, n)
  PROVE  /\ Sound(t) /\ t.rootLevel = n /\ DecisionLevel(t) = 0 /\ LitsOf(t) = LitsOf(s) /\ t.ok = s.ok
         /\ t.qhead = s.qhead /\ NAssigns(t) = NAssigns(s)
         /\ \A h, late : Watching(s, h, late) => Watching(t, h, late)
<1>1. Coherent(s)
  BY DEF Sound
<1>2. SameBut(s, t, {"rootLevel"}) /\ t.rootLevel = n
  BY <1>1, Types, RootIs DEF Rooting
<1>3. /\ Shaped(t) /\ t.ok = s.ok /\ t.lits = s.lits /\ t.clauses = s.clauses /\ t.learnts = s.learnts
      /\ t.unitId = s.unitId /\ t.order = s.order /\ t.watches = s.watches /\ t.assigns = s.assigns
      /\ t.trail = s.trail /\ t.trailLim = s.trailLim /\ t.reason = s.reason /\ t.level = s.level
      /\ t.trailPos = s.trailPos /\ t.qhead = s.qhead /\ t.simpAssigns = s.simpAssigns /\ t.log = s.log
  BY <1>2, SMT DEF SameBut, Fields
<1>4. /\ Vars(t) = Vars(s) /\ LitsOf(t) = LitsOf(s) /\ NAssigns(t) = NAssigns(s) /\ DecisionLevel(t) = 0
      /\ LastId(t) = LastId(s) /\ Unassigned(t) = Unassigned(s)
      /\ (\A p : Value(t, p) = Value(s, p) /\ (IsFalse(t, p) <=> IsFalse(s, p)) /\ At(t, p) = At(s, p))
  BY <1>3 DEF Vars, LitsOf, NAssigns, DecisionLevel, LastId, Unassigned, Value, IsFalse, At
<1>5. /\ \A v : Settled(t, v) <=> Settled(s, v)
      /\ \A c : Fixed(t, c) <=> Fixed(s, c)
  BY <1>3 DEF Settled, Fixed, Locked
<1>6. Typed(t)
  BY <1>1, <1>2, <1>3, <1>4 DEF Coherent, Typed
<1>7. Stored(t)
  <2>1. \A ls : IsClause(s, ls) => IsClause(t, ls)
    BY <1>4 DEF IsClause
  <2>2. QED
    BY <1>1, <1>3, <1>4, <2>1 DEF Coherent, Stored
<1>8. Trailed(t)
  <2>1. Trailed(s)
    BY <1>1 DEF Coherent
  <2>2. QED
    BY <1>3, <1>4, <2>1 DEF Trailed
<1>9. Levelled(t)
  <2>1. \A v \in Vars(s) : LevelFits(s, v) => LevelFits(t, v)
    BY <1>3, <1>4 DEF LevelFits
  <2>2. QED
    BY <1>1, <1>3, <1>4, <2>1 DEF Coherent, Levelled
<1>10. \A v \in Vars(s) : s.assigns[v] # Undef => s.level[v] = 0
  BY <1>1 DEF Coherent, Levelled, LevelFits
<1>11. Reasoned(t)
  <2>1. ASSUME NEW v \in Vars(s), s.reason[v] # NoClause
        PROVE  t.reason[v] \in DOMAIN t.lits /\ Implies(t, t.lits[t.reason[v]], v)
    <3> DEFINE ls == s.lits[s.reason[v]]
    <3>1. s.reason[v] \in DOMAIN s.lits /\ Implies(s, ls, v)
      BY <1>1, <2>1, ReasonIs
    <3>2. ls[1] \in LitsOf(s)
      BY <1>1, <3>1, LitsOfClause
    <3> HIDE DEF ls
    <3>3. Var(ls[1]) = v /\ Value(s, ls[1]) = True
      BY <3>1 DEF Implies
    <3>4. s.assigns[v] # Undef
      BY <1>1, <3>2, <3>3, OnTrail DEF True, Undef
    <3>5. ~(t.level[v] > t.rootLevel)
      BY <1>2, <1>3, <1>10, <3>4
    <3>6. Implies(t, ls, v)
      BY <1>3, <1>4, <3>1, <3>5 DEF Implies
    <3>7. QED
      BY <1>3, <3>1, <3>6 DEF ls
  <2>2. \A v \in Vars(t) : t.assigns[v] # Undef /\ t.reason[v] = NoClause =>
          t.level[v] = 0 \/ t.trailPos[v] = t.trailLim[t.level[v]]
    BY <1>3, <1>4, <1>10
  <2>3. \A v \in Vars(t) : t.reason[v] # NoClause => t.reason[v] \in DOMAIN t.lits /\ Implies(t, t.lits[t.reason[v]], v)
    BY <1>3, <1>4, <2>1
  <2>4. QED
    BY <2>2, <2>3 DEF Reasoned
<1>12. Simplified(t)
  BY <1>1, <1>3, <1>4, <1>5 DEF Coherent, Simplified
<1>13. Coherent(t)
  BY <1>6, <1>7, <1>8, <1>9, <1>11, <1>12 DEF Coherent
<1>14. Listed(t)
  <2>1. Lists(s, s.watches) /\ Covers(s, Places(s.watches))
    BY DEF Sound, Listed
  <2> DEFINE R == Places(s.watches)
  <2> HIDE DEF R
  <2>2. Covers(s, R)
    BY <2>1 DEF R
  <2>3. Covers(t, R)
    BY <1>3, <1>4, <1>5, <2>2 DEF Covers
  <2>4. Lists(t, t.watches)
    <3>1. \A w : Lists(s, w) => Lists(t, w)
      BY <1>4 DEF Lists
    <3>2. QED
      BY <1>3, <2>1, <3>1
  <2>5. QED
    BY <1>3, <2>3, <2>4 DEF Listed, R
<1>15. \A h, late : Watching(s, h, late) => Watching(t, h, late)
  <2>1. \A p, q : Guards(s, p, q) => Guards(t, p, q)
    BY <1>4 DEF Guards, Outlives
  <2>2. ASSUME NEW h, NEW late, NEW c \in DOMAIN s.lits, Awake(s, c, h, late) PROVE Awake(t, c, h, late)
    BY <1>3, <1>4, <2>1, <2>2 DEF Awake
  <2>3. QED
    BY <1>3, <2>2 DEF Watching
<1>16. QED
  BY <1>2, <1>3, <1>4, <1>13, <1>14, <1>15 DEF Sound

\* Every variable without a value is in the heap, but perhaps that of p.
Stocked(s, p) == Unassigned(s) \subseteq s.order \cup {Var(p)}

\* A literal is put on the trail.
LEMMA AssignsSound ==
  ASSUME NEW s, Coherent(s), Listed(s), NEW p, Stocked(s, p), NEW from, NEW lev, Justified(s, p, from, lev),
         NEW t, Assigns(s, t, p, from, lev), t.watches = s.watches, t.order = s.order
  PROVE  /\ Sound(t) /\ LitsOf(t) = LitsOf(s) /\ DecisionLevel(t) = DecisionLevel(s)
         /\ LevelStart(t) = LevelStart(s) /\ t.qhead = s.qhead /\ t.rootLevel = s.rootLevel
         /\ \A late : Watching(s, s.qhead, late) => Watching(t, t.qhead, late)
<1>1. p \in LitsOf(s) /\ Value(s, p) = Undef /\ from \in Nat /\ lev \in Nat
  <2>1. DecisionLevel(s) \in Nat
    BY Types
  <2>2. QED
    BY <2>1 DEF Justified
<1>2. /\ Coherent(t) /\ (\A R : Covers(s, R) => Covers(t, R)) /\ (\A w : Lists(s, w) => Lists(t, w))
      /\ \A c \in DOMAIN s.lits : \A h \in 0 .. NAssigns(s) : \A late : Awake(s, c, h, late) => Awake(t, c, h, late)
  BY AssignsKeeps
<1>3. /\ Vars(t) = Vars(s) /\ LitsOf(t) = LitsOf(s) /\ DecisionLevel(t) = DecisionLevel(s) /\ LevelStart(t) = LevelStart(s)
      /\ t.assigns[Var(p)] # Undef
      /\ \A v \in Vars(s) : v # Var(p) => t.assigns[v] = s.assigns[v]
  BY <1>1, AssignsIs
<1>4. t.qhead = s.qhead /\ t.rootLevel = s.rootLevel /\ t.lits = s.lits
  BY DEF Assigns
<1>5. s.qhead \in 0 .. NAssigns(s)
  BY Types, Starts
<1>6. ASSUME NEW late, Watching(s, s.qhead, late) PROVE Watching(t, t.qhead, late)
  BY <1>2, <1>4, <1>5, <1>6 DEF Watching
<1>7. Listed(t)
  <2> DEFINE w == s.watches
             R == Places(w)
  <2>1. Lists(s, w) /\ Covers(s, R)
    BY DEF Listed
  <2>2. t.watches = w
    OBVIOUS
  <2> HIDE DEF w
  <2>3. Lists(t, w)
    BY <1>2, <2>1
  <2>4. Covers(t, R)
    <3> HIDE DEF R
    <3>1. QED
      BY <1>2, <2>1
  <2>5. QED
    BY <2>2, <2>3, <2>4 DEF Listed
<1>8. Unassigned(t) \subseteq t.order
  <2>1. ASSUME NEW v \in Unassigned(t) PROVE v \in t.order
    <3>1. v \in Vars(s) /\ t.assigns[v] = Undef
      BY <1>3 DEF Unassigned
    <3>2. v # Var(p) /\ s.assigns[v] = Undef
      BY <1>3, <3>1
    <3>3. v \in Unassigned(s)
      BY <3>1, <3>2 DEF Unassigned
    <3>4. QED
      BY <3>2, <3>3 DEF Stocked
  <2>2. QED
    BY <2>1
<1>9. QED
  BY <1>2, <1>3, <1>4, <1>6, <1>7, <1>8 DEF Sound

\* A level is opened.
Pushed(s) == [s EXCEPT !.trailLim = Append(@, NAssigns(s))]

\* What opening a level changes.
LEMMA PushedIs ==
  ASSUME NEW s, Shaped(s), NEW t, t = Pushed(s)
  PROVE  Deepens(s, t)
BY LevelIs DEF Pushed, Deepens

\* A level is opened for p, which gets a value if it has none.
LEMMA AssumeKeeps ==
  ASSUME NEW s, Coherent(s), Listed(s), NEW p \in LitsOf(s), Stocked(s, p), s.qhead = NAssigns(s),
         NEW t, t = Assume(s, p)
  PROVE  /\ Sound(t) /\ LitsOf(t) = LitsOf(s) /\ DecisionLevel(t) = DecisionLevel(s) + 1
         /\ LevelStart(t) = NAssigns(s) /\ t.qhead = NAssigns(s) /\ t.rootLevel = s.rootLevel /\ t.ok = s.ok
         /\ Watching(s, s.qhead, {}) => Watching(t, t.qhead, {})
<1> DEFINE u == Pushed(s)
<1>1. Deepens(s, u)
  BY Types, PushedIs
<1>2. t = Enqueue(u, p, NoClause)
  BY DEF Assume, Pushed
<1> HIDE DEF u
<1>3. /\ Coherent(u) /\ DecisionLevel(u) = DecisionLevel(s) + 1 /\ NAssigns(u) = NAssigns(s)
      /\ LevelStart(u) = NAssigns(s) /\ u.trailLim[DecisionLevel(u)] = NAssigns(s)
      /\ LitsOf(u) = LitsOf(s) /\ (\A q : Value(u, q) = Value(s, q))
      /\ u.watches = s.watches /\ u.order = s.order /\ u.rootLevel = s.rootLevel /\ u.ok = s.ok
      /\ u.qhead = s.qhead /\ Unassigned(u) = Unassigned(s) /\ u.lits = s.lits
      /\ (\A R : Covers(s, R) => Covers(u, R)) /\ (\A w : Lists(s, w) => Lists(u, w))
      /\ \A h, late : Watching(s, h, late) => Watching(u, h, late)
  BY <1>1, LevelKeeps
<1>4. Listed(u)
  <2> DEFINE w == s.watches
             R == Places(w)
  <2>1. Lists(s, w) /\ Covers(s, R)
    BY DEF Listed
  <2>2. u.watches = w
    BY <1>3
  <2> HIDE DEF w
  <2>3. Lists(u, w)
    BY <1>3, <2>1
  <2>4. Covers(u, R)
    <3> HIDE DEF R
    <3>1. QED
      BY <1>3, <2>1
  <2>5. QED
    BY <2>2, <2>3, <2>4 DEF Listed
<1>5. CASE Value(u, p) # Undef
  <2>1. t = u
    BY <1>2, <1>5 DEF Enqueue
  <2>2. Unassigned(u) \subseteq u.order
    <3>1. u.assigns[Var(p)] # Undef
      <4>1. p \in LitsOf(u)
        BY <1>3
      <4>2. QED
        BY <1>3, <1>5, <4>1, OnTrail
    <3>2. Var(p) \notin Unassigned(u)
      BY <3>1 DEF Unassigned
    <3>3. QED
      BY <1>3, <3>2 DEF Stocked
  <2>3. Sound(u)
    BY <1>3, <1>4, <2>2 DEF Sound
  <2>4. QED
    BY <1>3, <2>1, <2>3
<1>6. CASE Value(u, p) = Undef
  <2> DEFINE lev == DecisionLevel(u)
  <2>1. p \in LitsOf(u) /\ DecisionLevel(s) \in Nat /\ lev = DecisionLevel(s) + 1
    BY <1>3, Types
  <2>2. NoClause \in Nat /\ lev # 0
    BY <2>1 DEF NoClause
  <2>3. /\ Assigns(u, t, p, NoClause, lev) /\ t.watches = u.watches /\ t.order = u.order /\ t.ok = u.ok
    BY <1>2, <1>3, <1>6, <2>1, EnqueueAssigns
  <2>4. Justified(u, p, NoClause, lev)
    BY <1>3, <1>6, <2>1, <2>2 DEF Justified
  <2>5. Stocked(u, p)
    BY <1>3 DEF Stocked
  <2> HIDE DEF lev
  <2>6. /\ Sound(t) /\ LitsOf(t) = LitsOf(u) /\ DecisionLevel(t) = DecisionLevel(u)
        /\ LevelStart(t) = LevelStart(u) /\ t.qhead = u.qhead /\ t.rootLevel = u.rootLevel
        /\ \A late : Watching(u, u.qhead, late) => Watching(t, t.qhead, late)
    BY <1>3, <1>4, <2>3, <2>4, <2>5, AssignsSound
  <2>7. QED
    BY <1>3, <2>3, <2>6
<1>7. QED
  BY <1>5, <1>6

\* A conflict is blamed on a literal.
LEMMA BlameIs ==
  ASSUME NEW s, Shaped(s), NEW p, NEW t, t = Blame(s, p)
  PROVE  SameBut(s, t, {"conflict"})
BY SMT DEF Blame, Shaped, Fields, SameBut

\* A refused assumption is written down.
LEMMA RefuseRemarks ==
  ASSUME NEW s, Coherent(s), NEW p, NEW t, t = RefuseAssumption(s, p)
  PROVE  Remarked(s, t)
<1>1. CASE s.reason[Var(p)] # NoClause
  <2> DEFINE u == AnalyzeFinal(s, s.reason[Var(p)], TRUE)
             F == {"conflict"}
  <2>1. Remarked(s, u)
    BY AnalyzeFinalRemarks
  <2>2. t = Blame(u, p)
    BY <1>1 DEF RefuseAssumption
  <2> HIDE DEF u
  <2>3. Coherent(u)
    BY <2>1, RemarkedKeeps
  <2>4. SameBut(u, t, F)
    BY <2>2, <2>3, Types, BlameIs
  <2>5. F \subseteq {"model", "conflict", "conflictId", "conflicts"}
    OBVIOUS
  <2> HIDE DEF F
  <2>6. Remarked(u, t)
    BY <2>3, <2>4, <2>5, SameButRemarks
  <2>7. Logged(s, u)
    <3>1. Notes(s, u) /\ u.watches = s.watches /\ u.order = s.order /\ u.qhead = s.qhead /\ u.ok = s.ok
      BY <2>1 DEF Remarked
    <3>2. LastId(u) \in Nat
      BY <2>3, Types
    <3>3. QED
      BY <3>1, <3>2 DEF Notes, Logged
  <2>8. QED
    BY <2>6, <2>7, LoggedRemarks
<1>2. CASE s.reason[Var(p)] = NoClause
  <2> DEFINE why == <<Neg(p)>>
             id == s.unitId[Var(p)]
             F == {"conflict", "conflictId"}
  <2>1. t = [s EXCEPT !.conflict = why, !.conflictId = id]
    BY <1>2 DEF RefuseAssumption
  <2> HIDE DEF why, id
  <2>2. SameBut(s, t, F)
    BY <2>1, Types, ConflictIs
  <2>3. F \subseteq {"model", "conflict", "conflictId", "conflicts"}
    OBVIOUS
  <2> HIDE DEF F
  <2>4. QED
    BY <2>2, <2>3, SameButRemarks
<1>3. QED
  BY <1>1, <1>2

IsTry(a) == DOMAIN a = {"s", "failed"} /\ a.failed \in BOOLEAN

\* The fields of the outcome of an assumption.
LEMMA TryIs ==
  ASSUME NEW u, NEW failed \in BOOLEAN, NEW t, t = [s |-> u, failed |-> failed]
  PROVE  IsTry(t) /\ t.s = u /\ t.failed = failed
<1>1. DOMAIN t = {"s", "failed"} /\ t.s = u
  OBVIOUS
<1>2. t.failed = failed
  OBVIOUS
<1>3. QED
  BY <1>1, <1>2, Zenon DEF IsTry

\* The first k assumptions are made, or one of them failed.
Tried(s, q, k, u, failed) ==
    /\ Sound(u) /\ u.rootLevel = Len(q) /\ LitsOf(u) = LitsOf(s)
    /\ IF failed THEN DecisionLevel(u) > 0 /\ Watching(u, LevelStart(u), {})
       ELSE DecisionLevel(u) = k /\ u.ok /\ u.qhead = NAssigns(u) /\ Watching(u, u.qhead, {})

\* One assumption.
LEMMA AssumptionTried ==
  ASSUME NEW s, NEW q, NEW k \in Nat, NEW a, IsTry(a), Tried(s, q, k, a.s, a.failed),
         NEW p \in LitsOf(s), NEW t, t = AssumeOne(a, p)
  PROVE  IsTry(t) /\ Tried(s, q, k + 1, t.s, t.failed)
<1>1. CASE a.failed
  <2>1. t = a
    BY <1>1 DEF AssumeOne
  <2>2. Tried(s, q, k + 1, a.s, a.failed)
    BY <1>1 DEF Tried
  <2>3. QED
    BY <2>1, <2>2
<1>2. CASE ~a.failed
  <2> DEFINE u == a.s
             v == Assume(u, p)
  <2>1. /\ Sound(u) /\ Coherent(u) /\ Listed(u) /\ u.rootLevel = Len(q) /\ LitsOf(u) = LitsOf(s)
        /\ DecisionLevel(u) = k /\ u.ok /\ u.qhead = NAssigns(u) /\ Watching(u, u.qhead, {})
    BY <1>2 DEF Tried, Sound
  <2>2. Stocked(u, p) /\ p \in LitsOf(u)
    BY <2>1 DEF Stocked, Sound
  <2>3. IF IsFalse(u, p) THEN t = [s |-> RefuseAssumption(v, p), failed |-> TRUE] ELSE t = AfterAssumption(Propagate(v))
    BY <1>2 DEF AssumeOne
  <2> HIDE DEF u
  <2>4. /\ Sound(v) /\ LitsOf(v) = LitsOf(u) /\ DecisionLevel(v) = DecisionLevel(u) + 1
        /\ LevelStart(v) = NAssigns(u) /\ v.qhead = NAssigns(u) /\ v.rootLevel = u.rootLevel /\ v.ok = u.ok
        /\ Watching(v, v.qhead, {})
    BY <2>1, <2>2, AssumeKeeps
  <2> HIDE DEF v
  <2>5. CASE IsFalse(u, p)
    <3> DEFINE w == RefuseAssumption(v, p)
    <3>1. IsTry(t) /\ t.s = w /\ t.failed = TRUE
      <4>1. t = [s |-> w, failed |-> TRUE]
        BY <2>3, <2>5
      <4>2. QED
        BY <4>1, TryIs
    <3>2. Remarked(v, w)
      BY <2>4, RefuseRemarks DEF Sound
    <3> HIDE DEF w
    <3>3. /\ Sound(w) /\ LitsOf(w) = LitsOf(v) /\ DecisionLevel(w) = DecisionLevel(v) /\ LevelStart(w) = LevelStart(v)
          /\ w.rootLevel = v.rootLevel /\ Watching(w, v.qhead, {})
      BY <2>4, <3>2, RemarkedKeeps
    <3>4. DecisionLevel(w) > 0 /\ Watching(w, LevelStart(w), {})
      BY <2>1, <2>4, <3>3
    <3>5. Tried(s, q, k + 1, w, TRUE)
      BY <2>1, <2>4, <3>3, <3>4 DEF Tried
    <3>6. QED
      BY <3>1, <3>5
  <2>6. CASE ~IsFalse(u, p)
    <3> DEFINE r == Propagate(v)
               w == r.s
               confl == r.confl
    <3>1. IsReply(r) /\ Propagated(v, w, confl)
      BY <2>4, PropagateEnds
    <3>2. IF confl = NoClause THEN t = [s |-> w, failed |-> FALSE]
          ELSE t = [s |-> AnalyzeFinal(w, confl, FALSE), failed |-> TRUE]
      BY <2>3, <2>6 DEF AfterAssumption
    <3> HIDE DEF w, confl, r
    <3>3. Sound(w) /\ Extends(v, w) /\ w.qhead = NAssigns(w)
      BY <3>1 DEF Propagated
    <3>4. LitsOf(w) = LitsOf(v) /\ DecisionLevel(w) = DecisionLevel(v) /\ w.rootLevel = v.rootLevel
      BY <3>3, ExtendsIs DEF Extends
    <3>5. CASE confl = NoClause
      <4>1. IsTry(t) /\ t.s = w /\ t.failed = FALSE
        <5>1. t = [s |-> w, failed |-> FALSE]
          BY <3>2, <3>5
        <5>2. QED
          BY <5>1, TryIs
      <4>2. w.ok = v.ok /\ Watching(w, w.qhead, {})
        BY <3>1, <3>5 DEF Propagated
      <4>3. Tried(s, q, k + 1, w, FALSE)
        BY <2>1, <2>4, <3>3, <3>4, <4>2 DEF Tried
      <4>4. QED
        BY <4>1, <4>3
    <3>6. CASE confl # NoClause
      <4> DEFINE x == AnalyzeFinal(w, confl, FALSE)
      <4>1. IsTry(t) /\ t.s = x /\ t.failed = TRUE
        <5>1. t = [s |-> x, failed |-> TRUE]
          BY <3>2, <3>6
        <5>2. QED
          BY <5>1, TryIs
      <4>2. Remarked(w, x)
        BY <3>3, AnalyzeFinalRemarks DEF Sound
      <4>3. Watching(w, LevelStart(w), {})
        BY <3>1, <3>6 DEF Propagated, InConflict
      <4> HIDE DEF x
      <4>4. /\ Sound(x) /\ LitsOf(x) = LitsOf(w) /\ DecisionLevel(x) = DecisionLevel(w) /\ LevelStart(x) = LevelStart(w)
            /\ x.rootLevel = w.rootLevel /\ Watching(x, LevelStart(w), {})
        BY <3>3, <4>2, <4>3, RemarkedKeeps
      <4>5. DecisionLevel(x) > 0
        BY <2>1, <2>4, <3>4, <4>4
      <4>6. Tried(s, q, k + 1, x, TRUE)
        BY <2>1, <2>4, <3>4, <4>4, <4>5 DEF Tried
      <4>7. QED
        BY <4>1, <4>6
    <3>7. QED
      BY <3>5, <3>6
  <2>7. QED
    BY <2>5, <2>6
<1>3. QED
  BY <1>1, <1>2 DEF IsTry

\* All assumptions.
LEMMA AssumptionsTried ==
  ASSUME NEW s, Sound(s), DecisionLevel(s) = 0, s.ok, s.qhead = NAssigns(s), Watching(s, s.qhead, {}),
         NEW q \in Seq(LitsOf(s)), NEW t, t = AssumeAll(s, q)
  PROVE  IsTry(t) /\ Tried(s, q, Len(q), t.s, t.failed)
<1> DEFINE n == Len(q)
           f == Assumed(s, q)
           ok(x, k) == IsTry(x) /\ Tried(s, q, k, x.s, x.failed)
           P == {k \in 0 .. n : ok(f[k], k)}
<1>1. n \in Nat /\ DOMAIN q = 1 .. n /\ \A k \in 1 .. n : q[k] \in LitsOf(s)
  OBVIOUS
<1>2. f[0] = Unassumed(s, q) /\ \A k \in 1 .. n : f[k] = AssumeOne(f[k - 1], q[k])
  BY <1>1, AssumeSteps
<1> HIDE DEF f
<1>3. 0 \in P
  <2> DEFINE m == n
             u == Rooting(s, m)
             a == f[0]
  <2>1. IsTry(a) /\ a.s = u /\ a.failed = FALSE
    <3>1. a = [s |-> u, failed |-> FALSE]
      BY <1>2 DEF Unassumed, Rooting
    <3> HIDE DEF u, a
    <3>2. QED
      BY <3>1, TryIs
  <2>2. u = Rooting(s, m) /\ m \in Nat
    BY <1>1
  <2> HIDE DEF m, u
  <2>3. /\ Sound(u) /\ u.rootLevel = m /\ DecisionLevel(u) = 0 /\ LitsOf(u) = LitsOf(s) /\ u.ok = s.ok
        /\ u.qhead = s.qhead /\ NAssigns(u) = NAssigns(s)
        /\ \A h, late : Watching(s, h, late) => Watching(u, h, late)
    BY <2>2, RootKeeps
  <2>4. Tried(s, q, 0, u, FALSE)
    BY <2>3 DEF Tried, m
  <2>5. IsTry(a) /\ Tried(s, q, 0, a.s, a.failed)
    BY <2>1, <2>4
  <2>6. QED
    BY <1>1, <2>5
<1>4. ASSUME NEW k \in Nat, k \in P /\ k < n PROVE k + 1 \in P
  <2>1. k + 1 \in 1 .. n /\ (k + 1) - 1 = k /\ k + 1 \in 0 .. n
    BY <1>1, <1>4
  <2>2. f[k + 1] = AssumeOne(f[k], q[k + 1]) /\ q[k + 1] \in LitsOf(s)
    BY <1>1, <1>2, <2>1
  <2>3. IsTry(f[k]) /\ Tried(s, q, k, f[k].s, f[k].failed)
    BY <1>4
  <2> DEFINE t1 == f[k + 1]
             p == q[k + 1]
             a == f[k]
  <2>4. t1 = AssumeOne(a, p) /\ p \in LitsOf(s) /\ IsTry(a) /\ Tried(s, q, k, a.s, a.failed)
    BY <2>2, <2>3
  <2> HIDE DEF t1, p, a
  <2>5. IsTry(t1) /\ Tried(s, q, k + 1, t1.s, t1.failed)
    BY <2>4, AssumptionTried
  <2>6. QED
    BY <2>1, <2>5 DEF t1
<1>5. n \in P
  <2> HIDE DEF P
  <2>1. \A k \in 0 .. n : k \in P
    BY <1>1, <1>3, <1>4, UpTo
  <2>2. QED
    BY <1>1, <2>1
<1>6. QED
  BY <1>5 DEF AssumeAll, f

-----------------------------------------------------------------------------
(***************************************************************************)
(* newClause of a clause of the problem.                                   *)
(***************************************************************************)
Below(T, x) == {y \in T : y < x}

\* Every place of the ascending order is taken.
LEMMA RanksTaken ==
  ASSUME NEW T \in SUBSET Nat, IsFiniteSet(T), NEW n, n = Cardinality(T)
  PROVE  n \in Nat /\ \A i \in 1 .. n : \E x \in T : Cardinality(Below(T, x)) = i - 1
<1> DEFINE r == [x \in T |-> Cardinality(Below(T, x))]
<1>1. n \in Nat
  BY FS_CardinalityType
<1>2. \A x \in T : /\ Below(T, x) \in SUBSET T /\ IsFiniteSet(Below(T, x)) /\ Cardinality(Below(T, x)) \in Nat
                   /\ Cardinality(Below(T, x)) <= n
                   /\ Cardinality(Below(T, x)) = n => Below(T, x) = T
  <2>1. ASSUME NEW x \in T
        PROVE  /\ Below(T, x) \in SUBSET T /\ IsFiniteSet(Below(T, x)) /\ Cardinality(Below(T, x)) \in Nat
               /\ Cardinality(Below(T, x)) <= n
               /\ Cardinality(Below(T, x)) = n => Below(T, x) = T
    <3> DEFINE B == Below(T, x)
    <3>1. B \in SUBSET T
      BY DEF Below
    <3> HIDE DEF B
    <3>2. IsFiniteSet(B) /\ Cardinality(B) <= n /\ (n = Cardinality(B) => B = T)
      BY <3>1, FS_Subset
    <3>3. Cardinality(B) \in Nat
      BY <3>2, FS_CardinalityType
    <3>4. QED
      BY <3>1, <3>2, <3>3 DEF B
  <2>2. QED
    BY <2>1
<1>3. \A x \in T : Cardinality(Below(T, x)) \in 0 .. n - 1
  <2>1. ASSUME NEW x \in T PROVE Cardinality(Below(T, x)) \in 0 .. n - 1
    <3>1. x \notin Below(T, x)
      BY DEF Below
    <3>2. Cardinality(Below(T, x)) # n
      BY <1>2, <3>1
    <3>3. QED
      BY <1>1, <1>2, <3>2
  <2>2. QED
    BY <2>1
<1>4. ASSUME NEW x \in T, NEW z \in T, x < z PROVE Cardinality(Below(T, x)) # Cardinality(Below(T, z))
  <2> DEFINE A == Below(T, x)
             B == Below(T, z)
  <2>1. A \in SUBSET B /\ x \in B /\ x \notin A
    <3>1. \A y \in T : y \in Nat
      OBVIOUS
    <3>2. \A y \in T : y < x => y < z
      BY <1>4, <3>1
    <3>3. x < z /\ ~(x < x)
      BY <1>4, <3>1
    <3>4. QED
      BY <3>2, <3>3 DEF Below
  <2>2. IsFiniteSet(B)
    BY <1>2
  <2> HIDE DEF A, B
  <2>3. Cardinality(B) = Cardinality(A) => B = A
    BY <2>1, <2>2, FS_Subset
  <2>4. QED
    BY <2>1, <2>3 DEF A, B
<1>5. r \in Injection(T, 0 .. n - 1)
  <2>1. \A x, z \in T : x # z => x < z \/ z < x
    OBVIOUS
  <2>2. r \in [T -> 0 .. n - 1]
    BY <1>3
  <2>3. ASSUME NEW x \in T, NEW z \in T, r[x] = r[z] PROVE x = z
    <3>1. Cardinality(Below(T, x)) = Cardinality(Below(T, z))
      BY <2>3
    <3>2. QED
      BY <1>4, <2>1, <3>1
  <2> HIDE DEF r
  <2>4. QED
    BY <2>2, <2>3 DEF Injection, IsInjective
<1>6. IsFiniteSet(0 .. n - 1) /\ Cardinality(0 .. n - 1) = n
  <2> DEFINE m == n - 1
  <2>1. 0 \in Int /\ m \in Int /\ (IF 0 > m THEN 0 ELSE m - 0 + 1) = n
    BY <1>1
  <2> HIDE DEF m
  <2>2. IsFiniteSet(0 .. m) /\ Cardinality(0 .. m) = IF 0 > m THEN 0 ELSE m - 0 + 1
    BY <2>1, FS_Interval
  <2>3. QED
    BY <2>1, <2>2, Zenon DEF m
<1>7. r \in Surjection(T, 0 .. n - 1)
  <2> HIDE DEF r
  <2>1. QED
    BY <1>5, <1>6, FS_Injection
<1>8. ASSUME NEW i \in 1 .. n PROVE \E x \in T : Cardinality(Below(T, x)) = i - 1
  <2>1. i - 1 \in 0 .. n - 1
    BY <1>1
  <2>2. PICK x \in T : r[x] = i - 1
    <3> HIDE DEF r
    <3>1. QED
      BY <1>7, <2>1 DEF Surjection
  <2>3. QED
    BY <2>2
<1>9. QED
  BY <1>1, <1>8

\* The members of a set in ascending order: each of them, and once.
LEMMA SortedIs ==
  ASSUME NEW T \in SUBSET Nat, IsFiniteSet(T), NEW f, f = Sorted(T)
  PROVE  /\ f \in Seq(T) /\ Len(f) = Cardinality(T) /\ Len(f) \in Nat /\ DOMAIN f = 1 .. Len(f) /\ Range(f) = T
         /\ \A i, j \in DOMAIN f : f[i] = f[j] => i = j
<1> DEFINE n == Cardinality(T)
           Ranked(x, i) == x \in T /\ Cardinality(Below(T, x)) = i - 1
<1>1. n \in Nat /\ \A i \in 1 .. n : \E x \in T : Cardinality(Below(T, x)) = i - 1
  BY RanksTaken
<1>2. f = [i \in 1 .. n |-> CHOOSE x \in T : Cardinality(Below(T, x)) = i - 1]
  BY DEF Sorted, Below
<1>3. \A i \in 1 .. n : Ranked(f[i], i)
  <2>1. ASSUME NEW i \in 1 .. n PROVE Ranked(f[i], i)
    <3>1. \E x \in T : Cardinality(Below(T, x)) = i - 1
      BY <1>1
    <3> DEFINE c == CHOOSE x \in T : Cardinality(Below(T, x)) = i - 1
    <3>2. Ranked(c, i)
      BY <3>1
    <3>3. f[i] = c
      BY <1>2
    <3> HIDE DEF c, Ranked
    <3>4. QED
      BY <3>2, <3>3
  <2>2. QED
    BY <2>1
<1>4. DOMAIN f = 1 .. n /\ f \in [1 .. n -> T]
  <2>1. DOMAIN f = 1 .. n /\ f = [i \in 1 .. n |-> f[i]]
    BY <1>2, Zenon
  <2>2. \A i \in 1 .. n : f[i] \in T
    BY <1>3
  <2>3. QED
    BY <2>1, <2>2
<1>5. \A i, j \in 1 .. n : f[i] = f[j] => i = j
  <2>1. ASSUME NEW i \in 1 .. n, NEW j \in 1 .. n, f[i] = f[j] PROVE i = j
    <3>1. Cardinality(Below(T, f[i])) = i - 1 /\ Cardinality(Below(T, f[j])) = j - 1
      BY <1>3
    <3>2. i - 1 = j - 1
      BY <2>1, <3>1
    <3>3. QED
      BY <3>2
  <2>2. QED
    BY <2>1
<1>6. f \in Seq(T) /\ Len(f) = n
  BY <1>1, <1>4
<1>7. Range(f) = T
  <2>1. IsFiniteSet(1 .. n) /\ Cardinality(1 .. n) = n
    BY <1>1, FS_Interval
  <2>2. f \in Injection(1 .. n, T)
    BY <1>4, <1>5 DEF Injection, IsInjective
  <2>3. f \in Surjection(1 .. n, T)
    BY <2>1, <2>2, FS_Injection
  <2>4. QED
    BY <1>4, <2>3 DEF Surjection, Range
<1>8. QED
  BY <1>1, <1>4, <1>5, <1>6, <1>7

\* A root is a note.
LEMMA AddRootLogs ==
  ASSUME NEW s, Coherent(s), NEW C, NEW t, t = AddRoot(s, C)
  PROVE  Logged(s, t) /\ LastId(t) = LastId(s) + 1
<1> DEFINE none == <<>>
           e == [root |-> TRUE, lits |-> C, ids |-> none, vars |-> none]
<1>1. none = <<>> /\ Shaped(s) /\ s.log \in Seq(Range(s.log)) /\ LastId(s) \in Nat
  BY Types
<1> HIDE DEF none
<1>2. Rooted(s, t, C, none)
  BY <1>1, AddRootIs
<1>3. t.log = Longer(s.log, e)
  BY <1>2 DEF Rooted, Longer
<1> HIDE DEF e
<1>4. t.log \in Seq(Range(t.log)) /\ Len(t.log) = Len(s.log) + 1 /\ Len(s.log) \in Nat
  BY <1>1, <1>3, LogGrows DEF Longer
<1>5. LastId(t) = LastId(s) + 1 /\ LastId(t) \in Nat /\ LastId(t) >= LastId(s)
  BY <1>4 DEF LastId
<1>6. s.unitId \in [Vars(s) -> Nat]
  BY DEF Coherent, Typed
<1>7. SameTrail(s, t)
  BY <1>2 DEF Rooted, SameTrail
<1>8. QED
  BY <1>2, <1>4, <1>5, <1>6, <1>7 DEF Rooted, Logged

\* A unit clause is assigned.
LEMMA UnitAssigns ==
  ASSUME NEW s, Coherent(s), NEW ls, Len(ls) = 1, NEW p \in LitsOf(s), p = ls[1], Value(s, p) = Undef,
         NEW learnt, NEW id \in Nat, NEW t, t = Install(s, ls, learnt, id)
  PROVE  /\ Assigns(s, t, p, NoClause, DecisionLevel(s)) /\ t.watches = s.watches /\ t.order = s.order
         /\ t.ok = s.ok
<1> DEFINE u == Enqueue(s, p, NoClause)
           v == Var(p)
           b == ~IsFalse(s, p)
           w == [u EXCEPT !.unitId[v] = id]
<1>1. ls # <<>>
  <2>1. Len(<<>>) = 0
    OBVIOUS
  <2>2. QED
    BY <2>1
<1>2. t = [u EXCEPT !.unitId[v] = id, !.ok = @ /\ b]
  BY <1>1 DEF Install
<1>3. b = TRUE
  BY DEF IsFalse, Undef, False
<1>4. /\ Assigns(s, u, p, NoClause, DecisionLevel(s)) /\ u.watches = s.watches /\ u.order = s.order
      /\ u.ok = s.ok /\ u.unitId = s.unitId /\ u.log = s.log /\ u.qhead = s.qhead
  BY EnqueueAssigns
<1> HIDE DEF u, b
<1>5. Shaped(u) /\ u.unitId \in [Vars(s) -> Nat] /\ u.ok \in BOOLEAN
  BY <1>4 DEF Assigns
<1>6. v \in Vars(s)
  BY DEF LitsOf
<1> HIDE DEF v
<1>7. SameBut(u, w, {"unitId"}) /\ w.unitId \in [Vars(s) -> Nat] /\ w.ok = u.ok /\ Shaped(w)
  <2>1. Vars(u) = Vars(s)
    <3>1. NoClause \in Nat /\ DecisionLevel(s) \in Nat
      BY Types DEF NoClause
    <3>2. QED
      BY <1>4, <3>1, AssignsIs
  <2>2. u.unitId \in [Vars(u) -> Nat] /\ v \in Vars(u) /\ w = [u EXCEPT !.unitId[v] = id]
    BY <1>5, <1>6, <2>1
  <2> HIDE DEF w
  <2>3. SameBut(u, w, {"unitId"}) /\ w.unitId \in [Vars(u) -> Nat]
    BY <1>5, <2>2, UnitIs
  <2>4. w.ok = u.ok /\ Shaped(w)
    BY <2>3, SMT DEF SameBut, Fields
  <2>5. QED
    BY <2>1, <2>3, <2>4
<1> DEFINE o == w.ok /\ b
<1>8. t = [w EXCEPT !.ok = o]
  BY <1>2
<1> HIDE DEF w
<1>8a. o = u.ok
  BY <1>3, <1>5, <1>7
<1> HIDE DEF o
<1>9. SameBut(w, t, {"ok"}) /\ t.ok = u.ok
  BY <1>7, <1>8, <1>8a, OkIs
<1>10. /\ t.assigns = u.assigns /\ t.level = u.level /\ t.trailPos = u.trailPos /\ t.reason = u.reason
       /\ t.trail = u.trail /\ t.trailLim = u.trailLim /\ t.rootLevel = u.rootLevel /\ t.simpAssigns = u.simpAssigns
       /\ t.lits = u.lits /\ t.clauses = u.clauses /\ t.learnts = u.learnts /\ t.qhead = u.qhead /\ t.log = u.log
       /\ t.watches = u.watches /\ t.order = u.order /\ Shaped(t) /\ t.unitId = w.unitId
  BY <1>7, <1>9, SMT DEF SameBut, Fields
<1>11. Assigns(s, t, p, NoClause, DecisionLevel(s))
  <2>1. LastId(t) = LastId(u)
    BY <1>10 DEF LastId
  <2>2. QED
    BY <1>4, <1>5, <1>7, <1>9, <1>10, <2>1 DEF Assigns
<1>12. QED
  BY <1>4, <1>9, <1>10, <1>11

\* A clause is stored under a new number.
LEMMA AttachedAttaches ==
  ASSUME NEW s, Coherent(s), NEW c, NEW ls, NEW learnt \in BOOLEAN, NEW t, t = Attach(s, c, ls, learnt)
  PROVE  /\ Attaches(s, t, c, ls) /\ t.ok = s.ok /\ t.order = s.order /\ t.qhead = s.qhead
         /\ t.log = s.log
<1>1. Attached(s, t, c, ls, learnt)
  BY Types, AttachIs
<1>2. s.unitId \in [Vars(s) -> Nat] /\ s.ok \in BOOLEAN /\ s.log \in Seq(Range(s.log)) /\ LastId(s) \in Nat
  BY Types DEF Coherent, Typed
<1>3. SameTrail(s, t)
  BY <1>1 DEF Attached, SameTrail
<1>4. /\ t.clauses \cup t.learnts = s.clauses \cup s.learnts \cup {c}
      /\ (c \notin s.clauses \cup s.learnts => t.clauses \cap t.learnts = s.clauses \cap s.learnts)
  <2>1. CASE learnt
    <3>1. t.learnts = s.learnts \cup {c} /\ t.clauses = s.clauses
      BY <1>1, <2>1 DEF Attached
    <3>2. QED
      BY <3>1
  <2>2. CASE ~learnt
    <3>1. t.clauses = s.clauses \cup {c} /\ t.learnts = s.learnts
      BY <1>1, <2>2 DEF Attached
    <3>2. QED
      BY <3>1
  <2>3. QED
    BY <2>1, <2>2
<1>5. LastId(t) >= LastId(s)
  BY <1>1, <1>2 DEF Attached, LastId
<1>6. QED
  BY <1>1, <1>2, <1>3, <1>4, <1>5 DEF Attached, Attaches

\* A clause whose watches can guard each other may be stored.
Joins(s, c, ls) ==
    /\ c \in 1 .. LastId(s) /\ c \notin DOMAIN s.lits /\ IsClause(s, ls)
    /\ \A i \in DOMAIN ls : Value(s, ls[i]) = True => ~Settled(s, Var(ls[i]))
    /\ ~Settled(s, Var(ls[1])) /\ ~Settled(s, Var(ls[2]))

\* A clause that joins the store keeps the invariant.
LEMMA AttachSound ==
  ASSUME NEW s, Coherent(s), Listed(s), NEW c, NEW ls, Joins(s, c, ls), NEW t, Attaches(s, t, c, ls)
  PROVE  /\ Coherent(t) /\ Listed(t) /\ c \in DOMAIN t.lits /\ t.lits[c] = ls
         /\ Unassigned(s) \subseteq s.order => Sound(t)
         /\ \A h, late : Watching(s, h, late) /\ Awake(t, c, h, late) => Watching(t, h, late)
<1>1. /\ c \in 1 .. LastId(s) /\ c \notin DOMAIN s.lits /\ IsClause(s, ls)
      /\ \A i \in DOMAIN ls : Value(s, ls[i]) = True => ~Settled(s, Var(ls[i]))
      /\ ~Settled(s, Var(ls[1])) /\ ~Settled(s, Var(ls[2]))
  BY DEF Joins
<1>2. /\ Coherent(t) /\ Listed(t) /\ DOMAIN t.lits = DOMAIN s.lits \cup {c} /\ t.lits[c] = ls
      /\ \A e \in DOMAIN s.lits : \A h, late : Awake(s, e, h, late) => Awake(t, e, h, late)
  BY <1>1, AttachesKeeps
<1>3. Unassigned(s) \subseteq s.order => Unassigned(t) \subseteq t.order
  <2>1. SameTrail(s, t) /\ t.order = s.order
    BY DEF Attaches
  <2>2. QED
    BY <2>1, SameTrailIs
<1>4. ASSUME NEW h, NEW late, Watching(s, h, late), Awake(t, c, h, late) PROVE Watching(t, h, late)
  BY <1>2, <1>4 DEF Watching
<1>5. QED
  BY <1>2, <1>3, <1>4 DEF Sound

\* Literals of different variables, none of which has a value.
Loose(s, ls) ==
    /\ ls \in Seq(LitsOf(s)) /\ \A i, j \in DOMAIN ls : Var(ls[i]) = Var(ls[j]) => i = j
    /\ \A i \in DOMAIN ls : Value(s, ls[i]) = Undef

\* The literals of a clause that have no value are stored or assigned.
LEMMA InstallKeeps ==
  ASSUME NEW s, Sound(s), DecisionLevel(s) = 0, Watching(s, s.qhead, {}),
         NEW ls, Loose(s, ls), NEW id \in 1 .. LastId(s), id \notin DOMAIN s.lits,
         NEW learnt \in BOOLEAN, ~learnt, NEW t, t = Install(s, ls, learnt, id)
  PROVE  Sound(t) /\ DecisionLevel(t) = 0 /\ LitsOf(t) = LitsOf(s) /\ (t.ok => Watching(t, t.qhead, {}))
<1>1. Coherent(s) /\ Listed(s) /\ Unassigned(s) \subseteq s.order
  BY DEF Sound
<1>2. /\ ls \in Seq(LitsOf(s)) /\ Len(ls) \in Nat /\ DOMAIN ls = 1 .. Len(ls) /\ LitsOf(s) \subseteq Nat
      /\ LastId(s) \in Nat /\ id \in Nat
  BY <1>1, Types DEF Loose
<1>3. CASE ls = <<>>
  <2>1. t = [s EXCEPT !.ok = FALSE]
    BY <1>3 DEF Install
  <2>2. Sound(t) /\ t.ok = FALSE /\ DecisionLevel(t) = DecisionLevel(s) /\ LitsOf(t) = LitsOf(s)
    BY <2>1, RefusedKeeps
  <2>3. QED
    BY <2>2
<1>4. CASE Len(ls) = 1
  <2> DEFINE p == ls[1]
             lev == DecisionLevel(s)
  <2>1. p \in LitsOf(s) /\ Value(s, p) = Undef
    <3>1. 1 \in DOMAIN ls
      BY <1>2, <1>4
    <3>2. ls[1] \in LitsOf(s)
      <4>1. Len(ls) = 1
        BY <1>4
      <4>2. QED
        BY <1>2, <4>1, ElementOfSeq
    <3>3. \A i \in DOMAIN ls : Value(s, ls[i]) = Undef
      BY DEF Loose
    <3>4. QED
      BY <3>1, <3>2, <3>3
  <2>2. p = ls[1] /\ lev = DecisionLevel(s) /\ lev = 0
    OBVIOUS
  <2> HIDE DEF p
  <2>3. Assigns(s, t, p, NoClause, lev) /\ t.watches = s.watches /\ t.order = s.order
    BY <1>1, <1>2, <1>4, <2>1, <2>2, UnitAssigns
  <2> HIDE DEF lev
  <2>4. Justified(s, p, NoClause, lev)
    <3>1. NoClause \in Nat /\ s.rootLevel \in Nat
      BY <1>1, Types DEF NoClause
    <3>2. QED
      BY <2>1, <2>2, <3>1 DEF Justified
  <2>5. Stocked(s, p)
    BY <1>1 DEF Stocked
  <2>6. /\ Sound(t) /\ LitsOf(t) = LitsOf(s) /\ DecisionLevel(t) = DecisionLevel(s)
        /\ \A late : Watching(s, s.qhead, late) => Watching(t, t.qhead, late)
    BY <1>1, <2>3, <2>4, <2>5, AssignsSound
  <2>7. QED
    BY <2>6
<1>5. CASE ls # <<>> /\ Len(ls) # 1
  <2>1. Len(ls) >= 2
    BY <1>2, <1>5
  <2>2. t = Attach(s, id, ls, learnt)
    <3>1. t = Attach(s, id, ls, FALSE)
      BY <1>5 DEF Install
    <3>2. learnt = FALSE
      OBVIOUS
    <3>3. QED
      BY <3>1, <3>2, Zenon
  <2>3. Attaches(s, t, id, ls) /\ t.ok = s.ok /\ t.order = s.order /\ t.qhead = s.qhead
    BY <1>1, <2>2, AttachedAttaches
  <2>4. \A i \in DOMAIN ls : Value(s, ls[i]) = Undef /\ ls[i] \in LitsOf(s)
    BY <1>2 DEF Loose
  <2>5. 1 \in DOMAIN ls /\ 2 \in DOMAIN ls
    BY <1>2, <2>1
  <2>6. \A i \in DOMAIN ls : ~Settled(s, Var(ls[i]))
    <3>1. ASSUME NEW i \in DOMAIN ls PROVE ~Settled(s, Var(ls[i]))
      <4> DEFINE q == ls[i]
      <4>1. q \in LitsOf(s) /\ Value(s, q) = Undef
        BY <2>4
      <4> HIDE DEF q
      <4>2. s.assigns[Var(q)] = Undef
        BY <1>1, <4>1, Types, Values
      <4>3. QED
        BY <4>2 DEF Settled, q
    <3>2. QED
      BY <3>1
  <2>7. Joins(s, id, ls)
    BY <1>2, <2>1, <2>5, <2>6 DEF Joins, IsClause, Loose
  <2>8. /\ Coherent(t) /\ id \in DOMAIN t.lits /\ t.lits[id] = ls /\ Sound(t)
        /\ \A h, late : Watching(s, h, late) /\ Awake(t, id, h, late) => Watching(t, h, late)
    BY <1>1, <2>3, <2>7, AttachSound
  <2>9. SameTrail(s, t)
    BY <2>3 DEF Attaches
  <2>10. LitsOf(t) = LitsOf(s) /\ DecisionLevel(t) = DecisionLevel(s) /\ \A q : Value(t, q) = Value(s, q) /\ (IsFalse(t, q) <=> IsFalse(s, q))
    BY <2>9, SameTrailIs
  <2>11. Awake(t, id, s.qhead, {})
    <3>1. \A q : Value(s, q) = Undef => ~IsFalse(t, q)
      <4>1. Undef # False
        BY DEF Undef, False
      <4>2. QED
        BY <2>10, <4>1, Zenon DEF IsFalse
    <3>2. \A i \in {1, 2} : ~IsFalse(t, ls[i])
      BY <2>4, <2>5, <3>1
    <3>3. QED
      BY <2>8, <3>2 DEF Awake
  <2>12. QED
    BY <2>3, <2>8, <2>10, <2>11
<1>6. QED
  BY <1>3, <1>4, <1>5

\* A clause a caller may add.
Offered(s, C) == C \in SUBSET LitsOf(s) /\ IsFiniteSet(C)
Open(s, C) == (\A p \in C : Neg(p) \notin C) /\ \A p \in C : Value(s, p) # True
Falsified(s, C) == {p \in C : IsFalse(s, p)}
Unfalsified(s, C) == {p \in C : ~IsFalse(s, p)}

\* Part of a clause in ascending order.
LEMMA PartSorted ==
  ASSUME NEW s, Coherent(s), NEW C, Offered(s, C), NEW D \in SUBSET C, NEW f, f = Sorted(D)
  PROVE  f \in Seq(LitsOf(s)) /\ Range(f) = D /\ DOMAIN f = 1 .. Len(f) /\ Len(f) \in Nat
         /\ \A i, j \in DOMAIN f : f[i] = f[j] => i = j
<1>1. LitsOf(s) \subseteq Nat /\ C \in SUBSET LitsOf(s) /\ IsFiniteSet(C)
  BY Types DEF Offered
<1>2. D \in SUBSET Nat /\ D \in SUBSET LitsOf(s) /\ IsFiniteSet(D)
  BY <1>1, FS_Subset
<1>3. /\ f \in Seq(D) /\ Len(f) \in Nat /\ DOMAIN f = 1 .. Len(f) /\ Range(f) = D
      /\ \A i, j \in DOMAIN f : f[i] = f[j] => i = j
  BY <1>2, SortedIs
<1>4. f \in Seq(LitsOf(s))
  <2>1. \A i \in 1 .. Len(f) : f[i] \in LitsOf(s)
    <3>1. \A i \in 1 .. Len(f) : f[i] \in D
      BY <1>3, RangeIn
    <3>2. QED
      BY <1>2, <3>1
  <2>2. f = [i \in 1 .. Len(f) |-> f[i]]
    BY <1>3
  <2>3. QED
    BY <1>3, <2>1, <2>2
<1>5. QED
  BY <1>3, <1>4

\* The rest of an open clause is loose.
LEMMA RestLoose ==
  ASSUME NEW s, Coherent(s), NEW C, Offered(s, C), Open(s, C), NEW f, f = Sorted(Unfalsified(s, C))
  PROVE  Loose(s, f)
<1> DEFINE D == Unfalsified(s, C)
<1>1. D \in SUBSET C /\ C \in SUBSET LitsOf(s)
  BY DEF Unfalsified, Offered
<1>2. f = Sorted(D)
  OBVIOUS
<1>3. \A p \in D : Value(s, p) = Undef /\ p \in Nat /\ p \in C
  <2>1. ASSUME NEW p \in D PROVE Value(s, p) = Undef /\ p \in Nat /\ p \in C
    <3>1. p \in LitsOf(s) /\ p \in C /\ p \in Nat
      BY <1>1, Types
    <3>2. Value(s, p) \in {True, False, Undef}
      BY <3>1, Types, Values
    <3>3. Value(s, p) # True /\ Value(s, p) # False
      BY <3>1 DEF Open, Unfalsified, IsFalse
    <3>4. QED
      BY <3>1, <3>2, <3>3
  <2>2. QED
    BY <2>1
<1> HIDE DEF D
<1>4. /\ f \in Seq(LitsOf(s)) /\ Range(f) = D /\ DOMAIN f = 1 .. Len(f) /\ Len(f) \in Nat
      /\ \A i, j \in DOMAIN f : f[i] = f[j] => i = j
  BY <1>1, <1>2, PartSorted
<1>5. \A i \in DOMAIN f : f[i] \in D
  BY <1>4 DEF Range
<1>6. ASSUME NEW i \in DOMAIN f, NEW j \in DOMAIN f, Var(f[i]) = Var(f[j]) PROVE i = j
  <2> DEFINE p == f[i]
             q == f[j]
  <2>1. p \in Nat /\ q \in Nat /\ p \in C /\ q \in C /\ Var(p) = Var(q)
    BY <1>3, <1>5, <1>6
  <2> HIDE DEF p, q
  <2>2. p = q \/ p = Neg(q)
    BY <2>1, SameVar
  <2>3. p = q
    BY <2>1, <2>2 DEF Open
  <2>4. QED
    BY <1>4, <2>3 DEF p, q
<1>7. \A i \in DOMAIN f : Value(s, f[i]) = Undef
  BY <1>3, <1>5
<1>8. QED
  BY <1>4, <1>6, <1>7 DEF Loose

\* The false literals of a clause are resolved away and the rest is kept.
LEMMA AddLitsKeeps ==
  ASSUME NEW s, Sound(s), DecisionLevel(s) = 0, Watching(s, s.qhead, {}),
         NEW C, Offered(s, C), Open(s, C), LastId(s) \in Nat \ {0}, LastId(s) \notin DOMAIN s.lits,
         NEW t, t = AddLits(s, C)
  PROVE  Sound(t) /\ DecisionLevel(t) = 0 /\ LitsOf(t) = LitsOf(s) /\ (t.ok => Watching(t, t.qhead, {}))
<1> DEFINE false == Sorted(Falsified(s, C))
           ls == Sorted(Unfalsified(s, C))
           c == LastId(s)
           ch == ResolveUnits(s, Chain(c), false)
           u == EndChain(s, ch)
           id == ChainId(s, ch)
           learnt == FALSE
<1>1. t = Install(u, ls, learnt, id)
  BY DEF AddLits, InstallRoot, Falsified, Unfalsified
<1>2. Coherent(s) /\ c \in Nat
  BY DEF Sound
<1>3. false \in Seq(LitsOf(s))
  <2> DEFINE D == Falsified(s, C)
  <2>1. D \in SUBSET C /\ false = Sorted(D)
    BY DEF Falsified
  <2> HIDE DEF D, false
  <2>2. QED
    BY <1>2, <2>1, PartSorted
<1>4. Loose(s, ls)
  BY <1>2, RestLoose
<1>5. ChainFrom(ch, c)
  <2> HIDE DEF false, c
  <2>1. ChainFrom(Chain(c), c)
    BY <1>2, ChainIsFrom
  <2>2. QED
    BY <1>2, <1>3, <2>1, ResolveUnitsIs
<1> HIDE DEF false, ls, ch
<1>6. Logged(s, u) /\ LastId(u) = IF ch.vars = <<>> THEN LastId(s) ELSE LastId(s) + 1
  BY <1>2, EndChainLogs
<1>7. id \in Nat /\ id = IF ch.vars = <<>> THEN c ELSE LastId(s) + 1
  BY <1>2, <1>5, ChainIdIs
<1> HIDE DEF u, id
<1>8. id \in 1 .. LastId(u) /\ id >= LastId(s)
  BY <1>2, <1>6, <1>7
<1>9. Coherent(u) /\ Notes(s, u) /\ u.watches = s.watches /\ u.order = s.order /\ u.qhead = s.qhead /\ u.ok = s.ok /\ u.lits = s.lits
  BY <1>2, <1>6, LoggedNotes
<1>10. Remarked(s, u)
  BY <1>9 DEF Remarked
<1>11. /\ Sound(u) /\ Watching(u, u.qhead, {}) /\ LitsOf(u) = LitsOf(s) /\ DecisionLevel(u) = 0
  BY <1>9, <1>10, RemarkedKeeps
<1>12. id \notin DOMAIN u.lits
  <2>1. \A e \in DOMAIN s.lits : e \in 1 .. LastId(s)
    BY <1>2, LitsOfClause
  <2>2. QED
    BY <1>2, <1>7, <1>8, <1>9, <2>1
<1>13. Loose(u, ls)
  <2>1. SameTrail(s, u)
    BY <1>9 DEF Notes
  <2>2. \A p : Value(u, p) = Value(s, p)
    BY <2>1, SameTrailIs
  <2>3. QED
    BY <1>4, <1>11, <2>2 DEF Loose
<1>14. learnt \in BOOLEAN /\ ~learnt
  OBVIOUS
<1> HIDE DEF learnt
<1>15. Sound(t) /\ DecisionLevel(t) = 0 /\ LitsOf(t) = LitsOf(u) /\ (t.ok => Watching(t, t.qhead, {}))
  BY <1>1, <1>8, <1>11, <1>12, <1>13, <1>14, InstallKeeps
<1>16. QED
  BY <1>11, <1>15

\* A clause is added between two calls.
LEMMA NewClauseKeeps ==
  ASSUME NEW s, Sound(s), DecisionLevel(s) = 0, s.ok => Watching(s, s.qhead, {}),
         NEW C, Offered(s, C), NEW t, t = NewClause(s, C)
  PROVE  Sound(t) /\ DecisionLevel(t) = 0 /\ LitsOf(t) = LitsOf(s) /\ (t.ok => Watching(t, t.qhead, {}))
<1>1. CASE t = s
  BY <1>1
<1>2. CASE t # s
  <2> DEFINE u == AddRoot(s, C)
  <2>1. s.ok /\ Open(s, C) /\ t = AddLits(u, C)
    BY <1>2 DEF NewClause, Open
  <2>2. Coherent(s) /\ LastId(s) \in Nat
    BY Types DEF Sound
  <2>3. Logged(s, u) /\ LastId(u) = LastId(s) + 1
    BY <2>2, AddRootLogs
  <2> HIDE DEF u
  <2>4. Coherent(u) /\ Notes(s, u) /\ u.watches = s.watches /\ u.order = s.order /\ u.qhead = s.qhead /\ u.ok = s.ok /\ u.lits = s.lits
    BY <2>2, <2>3, LoggedNotes
  <2>5. Remarked(s, u)
    BY <2>4 DEF Remarked
  <2>6. Sound(u) /\ Watching(u, u.qhead, {}) /\ LitsOf(u) = LitsOf(s) /\ DecisionLevel(u) = 0
    BY <2>1, <2>4, <2>5, RemarkedKeeps
  <2>7. Offered(u, C) /\ Open(u, C)
    <3>1. SameTrail(s, u)
      BY <2>4 DEF Notes
    <3>2. \A p : Value(u, p) = Value(s, p)
      BY <3>1, SameTrailIs
    <3>3. QED
      BY <2>1, <2>6, <3>2 DEF Offered, Open
  <2>8. LastId(u) \in Nat \ {0} /\ LastId(u) \notin DOMAIN u.lits
    <3>1. \A e \in DOMAIN s.lits : e \in 1 .. LastId(s)
      BY <2>2, LitsOfClause
    <3>2. QED
      BY <2>2, <2>3, <2>4, <3>1
  <2>9. Sound(t) /\ DecisionLevel(t) = 0 /\ LitsOf(t) = LitsOf(u) /\ (t.ok => Watching(t, t.qhead, {}))
    BY <2>1, <2>6, <2>7, <2>8, AddLitsKeeps
  <2>10. QED
    BY <2>6, <2>9
<1>3. QED
  BY <1>1, <1>2
=============================================================================
