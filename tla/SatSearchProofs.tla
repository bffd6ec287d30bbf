-------------------------- MODULE SatSearchProofs --------------------------
(***************************************************************************)
(* Proofs about the search of SatSolver, from what SatSolverProofs says of *)
(* its methods: what analyze learns, the actions of a session, and the     *)
(* theorems.                                                               *)
(***************************************************************************)
EXTENDS SatSolverProofs


-----------------------------------------------------------------------------
(***************************************************************************)
(* analyze, first half: what it has marked.                                *)
(***************************************************************************)
OfLast(s, V) == {v \in V : s.level[v] = DecisionLevel(s)}

\* The variables marked have values, were assigned before a place of the trail
\* and are not of level 0; n of them are of the last level.
Marks(s, V, n, at) ==
    /\ V \subseteq Vars(s) /\ n = Cardinality(OfLast(s, V))
    /\ \A v \in V : s.assigns[v] # Undef /\ s.level[v] \in 1 .. DecisionLevel(s) /\ s.trailPos[v] < at

\* The literals noted are false, of the marked variables that are not of the
\* last level, and bt is the highest of their levels.
Lowered(s, ls, bt, V) ==
    /\ ls \in Seq(LitsOf(s)) /\ bt \in Nat /\ bt < DecisionLevel(s)
    /\ \A i, j \in DOMAIN ls : Var(ls[i]) = Var(ls[j]) => i = j
    /\ \A i \in DOMAIN ls : Var(ls[i]) \in V /\ IsFalse(s, ls[i]) /\ s.level[Var(ls[i])] \in 1 .. bt
    /\ \A v \in V : s.level[v] # DecisionLevel(s) => \E i \in DOMAIN ls : Var(ls[i]) = v
    /\ bt > 0 => \E i \in DOMAIN ls : s.level[Var(ls[i])] = bt

IsMark(a) == DOMAIN a = {"seen", "open", "learnt", "bt", "chain", "at"}
Marked(s, a) ==
    /\ IsMark(a) /\ a.at \in 0 .. NAssigns(s) /\ a.chain.vars \in Seq(Nat)
    /\ Marks(s, a.seen, a.open, a.at) /\ Lowered(s, a.learnt, a.bt, a.seen)

\* One more variable is marked.
LEMMA MarksAdd ==
  ASSUME NEW s, Coherent(s), NEW V, NEW n, NEW at, Marks(s, V, n, at), NEW v \in Vars(s), v \notin V,
         s.assigns[v] # Undef, s.level[v] \in 1 .. DecisionLevel(s), s.trailPos[v] < at
  PROVE  Marks(s, V \cup {v}, IF s.level[v] = DecisionLevel(s) THEN n + 1 ELSE n, at) /\ n \in Nat
<1> DEFINE L == OfLast(s, V)
           K == OfLast(s, V \cup {v})
<1>1. IsFiniteSet(L) /\ v \notin L /\ n = Cardinality(L) /\ n \in Nat
  <2>1. L \in SUBSET Vars(s) /\ IsFiniteSet(Vars(s)) /\ v \notin L /\ n = Cardinality(L)
    BY Types DEF Marks, OfLast
  <2> HIDE DEF L
  <2>2. IsFiniteSet(L)
    BY <2>1, FS_Subset
  <2>3. QED
    BY <2>1, <2>2, FS_CardinalityType
<1>2. K = IF s.level[v] = DecisionLevel(s) THEN L \cup {v} ELSE L
  BY DEF OfLast
<1> HIDE DEF L, K
<1>3. Cardinality(L \cup {v}) = n + 1
  BY <1>1, FS_AddElement
<1>4. Cardinality(K) = IF s.level[v] = DecisionLevel(s) THEN n + 1 ELSE n
  BY <1>1, <1>2, <1>3
<1>5. QED
  BY <1>1, <1>4 DEF Marks, K

\* The last variable marked is taken away.
LEMMA MarksRemove ==
  ASSUME NEW s, Coherent(s), NEW V, NEW n, NEW at, Marks(s, V, n, at), NEW v \in V,
         s.level[v] = DecisionLevel(s), NEW i, \A w \in V : w # v => s.trailPos[w] < i
  PROVE  Marks(s, V \ {v}, n - 1, i) /\ n \in Nat
<1> DEFINE L == OfLast(s, V)
           K == OfLast(s, V \ {v})
<1>1. IsFiniteSet(L) /\ v \in L /\ n = Cardinality(L) /\ n \in Nat
  <2>1. L \in SUBSET Vars(s) /\ IsFiniteSet(Vars(s)) /\ v \in L /\ n = Cardinality(L)
    BY Types DEF Marks, OfLast
  <2> HIDE DEF L
  <2>2. IsFiniteSet(L)
    BY <2>1, FS_Subset
  <2>3. QED
    BY <2>1, <2>2, FS_CardinalityType
<1>2. K = L \ {v}
  BY DEF OfLast
<1> HIDE DEF L, K
<1>3. Cardinality(K) = n - 1
  BY <1>1, <1>2, FS_RemoveElement
<1>4. QED
  BY <1>1, <1>3 DEF Marks, K

\* A literal of a lower level is noted.
LEMMA LoweredAdd ==
  ASSUME NEW s, Coherent(s), NEW ls, NEW bt, NEW V, Lowered(s, ls, bt, V),
         NEW q \in LitsOf(s), IsFalse(s, q), Var(q) \notin V,
         s.level[Var(q)] \in 1 .. DecisionLevel(s), s.level[Var(q)] # DecisionLevel(s)
  PROVE  Lowered(s, Append(ls, q), Max({bt, s.level[Var(q)]}), V \cup {Var(q)})
<1> DEFINE g == Append(ls, q)
           lev == s.level[Var(q)]
           m == Max({bt, lev})
<1>1. /\ ls \in Seq(LitsOf(s)) /\ Len(ls) \in Nat /\ DOMAIN ls = 1 .. Len(ls) /\ bt \in Nat
      /\ lev \in Nat /\ lev >= 1 /\ lev < DecisionLevel(s) /\ DecisionLevel(s) \in Nat /\ bt < DecisionLevel(s)
  BY Types DEF Lowered
<1>2. /\ g \in Seq(LitsOf(s)) /\ DOMAIN g = 1 .. Len(ls) + 1 /\ g[Len(ls) + 1] = q
      /\ \A i \in 1 .. Len(ls) : g[i] = ls[i]
  <2>1. LitsOf(s) \cup {q} = LitsOf(s)
    OBVIOUS
  <2>2. QED
    BY <1>1, <2>1, RangeAppend
<1> HIDE DEF g
<1>3. m \in Nat /\ m < DecisionLevel(s) /\ bt <= m /\ lev <= m /\ (m = bt \/ m = lev) /\ m > 0
  BY <1>1, PairExtremes
<1>4. /\ \A i, j \in DOMAIN ls : Var(ls[i]) = Var(ls[j]) => i = j
      /\ \A i \in DOMAIN ls : Var(ls[i]) \in V /\ IsFalse(s, ls[i]) /\ s.level[Var(ls[i])] \in 1 .. bt
      /\ \A v \in V : s.level[v] # DecisionLevel(s) => \E i \in DOMAIN ls : Var(ls[i]) = v
      /\ bt > 0 => \E i \in DOMAIN ls : s.level[Var(ls[i])] = bt
  BY DEF Lowered
<1> HIDE DEF m
<1>5. \A i, j \in DOMAIN g : Var(g[i]) = Var(g[j]) => i = j
  <2>1. \A i \in DOMAIN g : i \in DOMAIN ls \/ i = Len(ls) + 1
    BY <1>1, <1>2
  <2>2. \A i \in DOMAIN ls : Var(g[i]) = Var(ls[i]) /\ Var(g[i]) # Var(q)
    BY <1>1, <1>2, <1>4
  <2>3. Var(g[Len(ls) + 1]) = Var(q)
    BY <1>2
  <2>4. QED
    BY <1>4, <2>1, <2>2, <2>3
<1>6. \A i \in DOMAIN g : Var(g[i]) \in V \cup {Var(q)} /\ IsFalse(s, g[i]) /\ s.level[Var(g[i])] \in 1 .. m
  <2>1. ASSUME NEW i \in DOMAIN ls
        PROVE  Var(g[i]) \in V \cup {Var(q)} /\ IsFalse(s, g[i]) /\ s.level[Var(g[i])] \in 1 .. m
    BY <1>1, <1>2, <1>3, <1>4
  <2>2. Var(g[Len(ls) + 1]) \in V \cup {Var(q)} /\ IsFalse(s, g[Len(ls) + 1]) /\ s.level[Var(g[Len(ls) + 1])] \in 1 .. m
    BY <1>1, <1>2, <1>3
  <2>3. \A i \in DOMAIN g : i \in DOMAIN ls \/ i = Len(ls) + 1
    BY <1>1, <1>2
  <2>4. QED
    BY <2>1, <2>2, <2>3
<1>7. \A v \in V \cup {Var(q)} : s.level[v] # DecisionLevel(s) => \E i \in DOMAIN g : Var(g[i]) = v
  <2>1. ASSUME NEW v \in V, s.level[v] # DecisionLevel(s) PROVE \E i \in DOMAIN g : Var(g[i]) = v
    <3>1. PICK i \in DOMAIN ls : Var(ls[i]) = v
      BY <1>4, <2>1
    <3>2. i \in DOMAIN g /\ g[i] = ls[i]
      BY <1>1, <1>2
    <3>3. QED
      BY <3>1, <3>2
  <2>2. Len(ls) + 1 \in DOMAIN g /\ Var(g[Len(ls) + 1]) = Var(q)
    BY <1>1, <1>2
  <2>3. QED
    BY <2>1, <2>2
<1>8. \E i \in DOMAIN g : s.level[Var(g[i])] = m
  <2>1. CASE m = lev
    <3>1. Len(ls) + 1 \in DOMAIN g /\ s.level[Var(g[Len(ls) + 1])] = m
      BY <1>1, <1>2, <2>1
    <3>2. QED
      BY <3>1
  <2>2. CASE m = bt
    <3>1. PICK i \in DOMAIN ls : s.level[Var(ls[i])] = bt
      BY <1>3, <1>4, <2>2
    <3>2. i \in DOMAIN g /\ g[i] = ls[i]
      BY <1>1, <1>2
    <3>3. QED
      BY <2>2, <3>1, <3>2
  <2>3. QED
    BY <1>3, <2>1, <2>2
<1>9. Lowered(s, g, m, V \cup {Var(q)})
  BY <1>2, <1>3, <1>5, <1>6, <1>7, <1>8 DEF Lowered
<1>10. QED
  BY <1>9 DEF g, m

\* What is marked of the last level is not noted.
LEMMA LoweredKeeps ==
  ASSUME NEW s, NEW ls, NEW bt, NEW V, Lowered(s, ls, bt, V), NEW v, s.level[v] = DecisionLevel(s)
  PROVE  Lowered(s, ls, bt, V \cup {v}) /\ Lowered(s, ls, bt, V \ {v})
<1>1. ASSUME NEW W, W = V \cup {v} \/ W = V \ {v} PROVE Lowered(s, ls, bt, W)
  <2>1. \A i \in DOMAIN ls : Var(ls[i]) \in W
    <3>1. \A i \in DOMAIN ls : Var(ls[i]) \in V /\ Var(ls[i]) # v
      BY SMT DEF Lowered
    <3>2. QED
      BY <1>1, <3>1
  <2>2. \A w \in W : s.level[w] # DecisionLevel(s) => w \in V
    BY <1>1
  <2>3. QED
    BY <2>1, <2>2 DEF Lowered
<1>2. QED
  BY <1>1

\* What is done with one literal of a clause.
Noted(s, a, t, q) ==
    \/ Var(q) \in a.seen /\ t = a
    \/ /\ Var(q) \notin a.seen /\ s.level[Var(q)] = 0
       /\ t.seen = a.seen /\ t.open = a.open /\ t.learnt = a.learnt /\ t.bt = a.bt
       /\ t.chain = Resolve(a.chain, s.unitId[Var(q)], Var(q))
    \/ /\ Var(q) \notin a.seen /\ s.level[Var(q)] # 0 /\ s.level[Var(q)] = DecisionLevel(s)
       /\ t.seen = a.seen \cup {Var(q)} /\ t.open = a.open + 1 /\ t.learnt = a.learnt /\ t.bt = a.bt
       /\ t.chain = a.chain
    \/ /\ Var(q) \notin a.seen /\ s.level[Var(q)] # 0 /\ s.level[Var(q)] # DecisionLevel(s)
       /\ t.seen = a.seen \cup {Var(q)} /\ t.open = a.open /\ t.learnt = Append(a.learnt, q)
       /\ t.bt = Max({a.bt, s.level[Var(q)]}) /\ t.chain = a.chain

\* What analyze notes of a literal.
LEMMA MeetLiteralIs ==
  ASSUME NEW s, NEW a, IsMark(a), NEW q, NEW t, t = MeetLiteral(s, a, q)
  PROVE  IsMark(t) /\ t.at = a.at /\ Noted(s, a, t, q)
<1> DEFINE v == Var(q)
<1>1. CASE v \in a.seen
  BY <1>1 DEF MeetLiteral, Noted
<1>2. CASE v \notin a.seen /\ s.level[v] = 0
  <2> DEFINE e == Resolve(a.chain, s.unitId[v], v)
  <2>1. t = [a EXCEPT !.chain = e]
    BY <1>2 DEF MeetLiteral
  <2> HIDE DEF e
  <2>2. /\ IsMark(t) /\ t.at = a.at /\ t.seen = a.seen /\ t.open = a.open /\ t.learnt = a.learnt /\ t.bt = a.bt
        /\ t.chain = e
    BY <2>1 DEF IsMark
  <2>3. QED
    BY <1>2, <2>2 DEF Noted, e
<1>3. CASE v \notin a.seen /\ s.level[v] # 0 /\ s.level[v] = DecisionLevel(s)
  <2> DEFINE e == a.seen \cup {v}
             n == a.open + 1
  <2>1. t = [a EXCEPT !.seen = e, !.open = n]
    BY <1>3 DEF MeetLiteral
  <2> HIDE DEF e, n
  <2>2. /\ IsMark(t) /\ t.at = a.at /\ t.seen = e /\ t.open = n /\ t.learnt = a.learnt /\ t.bt = a.bt
        /\ t.chain = a.chain
    BY <2>1 DEF IsMark
  <2>3. QED
    BY <1>3, <2>2 DEF Noted, e, n
<1>4. CASE v \notin a.seen /\ s.level[v] # 0 /\ s.level[v] # DecisionLevel(s)
  <2> DEFINE e == a.seen \cup {v}
             n == Append(a.learnt, q)
             m == Max({a.bt, s.level[v]})
  <2>1. t = [a EXCEPT !.seen = e, !.learnt = n, !.bt = m]
    BY <1>4 DEF MeetLiteral
  <2> HIDE DEF e, n, m
  <2>2. /\ IsMark(t) /\ t.at = a.at /\ t.seen = e /\ t.open = a.open /\ t.learnt = n /\ t.bt = m
        /\ t.chain = a.chain
    BY <2>1 DEF IsMark
  <2>3. QED
    BY <1>4, <2>2 DEF Noted, e, n, m
<1>5. QED
  BY <1>1, <1>2, <1>3, <1>4

\* A chain that is not shorter.
Chains(ch, n) == ch.vars \in Seq(Nat) /\ Len(ch.vars) \in Nat /\ Len(ch.vars) >= n

\* A chain may be prolonged.
LEMMA ResolveChains ==
  ASSUME NEW ch, NEW n \in Nat, Chains(ch, n), NEW id, NEW v \in Nat
  PROVE  Chains(Resolve(ch, id, v), n) /\ Chains(Resolve(ch, id, v), n + 1)
<1> DEFINE g == Append(ch.vars, v)
<1>1. g \in Seq(Nat) /\ Len(g) = Len(ch.vars) + 1
  BY DEF Chains
<1>2. Resolve(ch, id, v).vars = g
  BY DEF Resolve
<1> HIDE DEF g
<1>3. QED
  BY <1>1, <1>2 DEF Chains

\* What a round of marking keeps: nothing marked is forgotten.
Grows(s, a, t) ==
    /\ Marked(s, t) /\ t.at = a.at /\ a.seen \subseteq t.seen
    /\ \A n \in Nat : Chains(a.chain, n) => Chains(t.chain, n)

\* Meeting a false literal keeps the marks in order and marks it above level 0.
LEMMA MeetLiteralMarks ==
  ASSUME NEW s, Coherent(s), NEW a, Marked(s, a), NEW q \in LitsOf(s), IsFalse(s, q), At(s, q) < a.at,
         NEW t, t = MeetLiteral(s, a, q)
  PROVE  Grows(s, a, t) /\ (s.level[Var(q)] # 0 => Var(q) \in t.seen)
<1> DEFINE v == Var(q)
<1>1. IsMark(t) /\ t.at = a.at /\ Noted(s, a, t, q)
  BY MeetLiteralIs DEF Marked
<1>2. /\ v \in Vars(s) /\ s.assigns[v] # Undef /\ s.level[v] \in 0 .. DecisionLevel(s) /\ s.trailPos[v] < a.at
      /\ v \in Nat
  <2>1. Value(s, q) # Undef
    BY Types, Values DEF IsFalse
  <2>2. QED
    BY <2>1, OnTrail, Types DEF At
<1>3. /\ a.at \in 0 .. NAssigns(s) /\ a.chain.vars \in Seq(Nat) /\ Marks(s, a.seen, a.open, a.at)
      /\ Lowered(s, a.learnt, a.bt, a.seen)
  BY DEF Marked
<1>4. DecisionLevel(s) \in Nat
  BY Types
<1>5. CASE v \in a.seen /\ t = a
  BY <1>5 DEF Grows
<1>6. CASE v \notin a.seen /\ s.level[v] = 0
  <2>1. /\ t.seen = a.seen /\ t.open = a.open /\ t.learnt = a.learnt /\ t.bt = a.bt
        /\ t.chain = Resolve(a.chain, s.unitId[v], v)
    BY <1>1, <1>4, <1>6 DEF Noted
  <2>2. \A n \in Nat : Chains(a.chain, n) => Chains(t.chain, n)
    BY <1>2, <2>1, ResolveChains
  <2>3. t.chain.vars \in Seq(Nat)
    <3>1. Chains(a.chain, 0)
      BY <1>3 DEF Chains
    <3>2. QED
      BY <2>2, <3>1 DEF Chains
  <2>4. Marked(s, t)
    BY <1>1, <1>3, <2>1, <2>3 DEF Marked
  <2>5. QED
    BY <1>1, <1>6, <2>1, <2>2, <2>4 DEF Grows
<1>7. CASE v \notin a.seen /\ s.level[v] # 0 /\ s.level[v] = DecisionLevel(s)
  <2>1. t.seen = a.seen \cup {v} /\ t.open = a.open + 1 /\ t.learnt = a.learnt /\ t.bt = a.bt /\ t.chain = a.chain
    BY <1>1, <1>4, <1>7 DEF Noted
  <2>2. s.level[v] \in 1 .. DecisionLevel(s)
    BY <1>2, <1>7
  <2>3. Marks(s, t.seen, t.open, t.at)
    <3>1. Marks(s, a.seen \cup {v}, IF s.level[v] = DecisionLevel(s) THEN a.open + 1 ELSE a.open, a.at)
      BY <1>2, <1>3, <1>7, <2>2, MarksAdd
    <3>2. QED
      BY <1>1, <1>7, <2>1, <3>1
  <2>4. Lowered(s, t.learnt, t.bt, t.seen)
    <3>1. Lowered(s, a.learnt, a.bt, a.seen \cup {v})
      <4> DEFINE ls == a.learnt
                 bt == a.bt
                 V == a.seen
      <4>1. Lowered(s, ls, bt, V) /\ s.level[v] = DecisionLevel(s)
        BY <1>3, <1>7
      <4> HIDE DEF ls, bt, V, v
      <4>2. Lowered(s, ls, bt, V \cup {v})
        BY <4>1, LoweredKeeps
      <4>3. QED
        BY <4>2 DEF ls, bt, V, v
    <3>2. QED
      BY <2>1, <3>1, Zenon
  <2>5. Marked(s, t)
    BY <1>1, <1>3, <2>1, <2>3, <2>4 DEF Marked
  <2>6. QED
    BY <1>1, <2>1, <2>5 DEF Grows
<1>8. CASE v \notin a.seen /\ s.level[v] # 0 /\ s.level[v] # DecisionLevel(s)
  <2>1. /\ t.seen = a.seen \cup {v} /\ t.open = a.open /\ t.learnt = Append(a.learnt, q)
        /\ t.bt = Max({a.bt, s.level[v]}) /\ t.chain = a.chain
    BY <1>1, <1>8 DEF Noted
  <2>2. s.level[v] \in 1 .. DecisionLevel(s)
    BY <1>2, <1>8
  <2>3. Marks(s, t.seen, t.open, t.at)
    <3>1. Marks(s, a.seen \cup {v}, IF s.level[v] = DecisionLevel(s) THEN a.open + 1 ELSE a.open, a.at)
      BY <1>2, <1>3, <1>8, <2>2, MarksAdd
    <3>2. QED
      BY <1>1, <1>8, <2>1, <3>1
  <2>4. Lowered(s, Append(a.learnt, q), Max({a.bt, s.level[v]}), a.seen \cup {v})
    BY <1>3, <1>8, <2>2, LoweredAdd
  <2>5. Lowered(s, t.learnt, t.bt, t.seen)
    BY <2>1, <2>4, Zenon
  <2>6. Marked(s, t)
    BY <1>1, <1>3, <2>1, <2>3, <2>5 DEF Marked
  <2>7. QED
    BY <1>1, <2>1, <2>6 DEF Grows
<1>9. QED
  BY <1>1, <1>5, <1>6, <1>7, <1>8 DEF Noted

\* A clause, or all of it but the first literal.
Passed(s, ls, at) == ls \in Seq(LitsOf(s)) /\ \A i \in DOMAIN ls : IsFalse(s, ls[i]) /\ At(s, ls[i]) < at

\* So does meeting all literals of a clause.
LEMMA MeetAllMarks ==
  ASSUME NEW s, Coherent(s), NEW a, Marked(s, a), NEW ls, Passed(s, ls, a.at), NEW t, t = MeetAll(s, a, ls)
  PROVE  Grows(s, a, t) /\ \A i \in DOMAIN ls : s.level[Var(ls[i])] # 0 => Var(ls[i]) \in t.seen
<1> DEFINE n == Len(ls)
           f == Meetings(s, a, ls)
           ok(x, k) == Grows(s, a, x) /\ \A i \in 1 .. k : s.level[Var(ls[i])] # 0 => Var(ls[i]) \in x.seen
           P == {k \in 0 .. n : ok(f[k], k)}
<1>1. /\ n \in Nat /\ DOMAIN ls = 1 .. n
      /\ \A k \in 1 .. n : ls[k] \in LitsOf(s) /\ IsFalse(s, ls[k]) /\ At(s, ls[k]) < a.at
  BY DEF Passed
<1>2. f[0] = a /\ \A k \in 1 .. n : f[k] = MeetLiteral(s, f[k - 1], ls[k])
  BY <1>1, MeetSteps
<1> HIDE DEF f
<1>3. 0 \in P
  <2>1. Grows(s, a, f[0])
    BY <1>2 DEF Grows
  <2>2. QED
    BY <1>1, <2>1
<1>4. ASSUME NEW k \in Nat, k \in P /\ k < n PROVE k + 1 \in P
  <2> DEFINE x == f[k]
             t1 == f[k + 1]
             q == ls[k + 1]
  <2>1. k + 1 \in 1 .. n /\ (k + 1) - 1 = k /\ k + 1 \in 0 .. n
    BY <1>1, <1>4
  <2>2. t1 = MeetLiteral(s, x, q) /\ q \in LitsOf(s) /\ IsFalse(s, q) /\ At(s, q) < a.at
    BY <1>1, <1>2, <2>1
  <2>3. Grows(s, a, x) /\ \A i \in 1 .. k : s.level[Var(ls[i])] # 0 => Var(ls[i]) \in x.seen
    BY <1>4
  <2> HIDE DEF x, t1
  <2>4. Marked(s, x) /\ x.at = a.at
    BY <2>3 DEF Grows
  <2>5. Grows(s, x, t1) /\ (s.level[Var(q)] # 0 => Var(q) \in t1.seen)
    <3> HIDE DEF q
    <3>1. QED
      BY <2>2, <2>4, MeetLiteralMarks
  <2>6. Grows(s, a, t1)
    BY <2>3, <2>5 DEF Grows
  <2>7. \A i \in 1 .. k + 1 : s.level[Var(ls[i])] # 0 => Var(ls[i]) \in t1.seen
    <3>1. \A i \in 1 .. k + 1 : i \in 1 .. k \/ i = k + 1
      OBVIOUS
    <3>2. x.seen \subseteq t1.seen
      BY <2>5 DEF Grows
    <3>3. QED
      BY <2>3, <2>5, <3>1, <3>2
  <2>8. QED
    BY <2>1, <2>6, <2>7 DEF t1
<1>5. n \in P
  <2> HIDE DEF P
  <2>1. \A k \in 0 .. n : k \in P
    BY <1>1, <1>3, <1>4, UpTo
  <2>2. QED
    BY <1>1, <2>1
<1>6. QED
  BY <1>1, <1>5 DEF MeetAll, f

\* What is marked of the last level is counted.
LEMMA OpenCounts ==
  ASSUME NEW s, Coherent(s), NEW a, Marked(s, a)
  PROVE  /\ IsFiniteSet(OfLast(s, a.seen)) /\ a.open = Cardinality(OfLast(s, a.seen)) /\ a.open \in Nat
         /\ a.open >= 1 => \E v \in a.seen : s.level[v] = DecisionLevel(s)
         /\ \A x \in OfLast(s, a.seen) : a.open # 1 => \E v \in a.seen : s.level[v] = DecisionLevel(s) /\ v # x
<1> DEFINE L == OfLast(s, a.seen)
<1>1. L \in SUBSET Vars(s) /\ IsFiniteSet(Vars(s)) /\ a.open = Cardinality(L)
  BY Types DEF Marked, Marks, OfLast
<1> HIDE DEF L
<1>2. IsFiniteSet(L)
  BY <1>1, FS_Subset
<1>3. a.open \in Nat
  BY <1>1, <1>2, FS_CardinalityType
<1>4. a.open >= 1 => L # {}
  BY <1>1, <1>2, <1>3, FS_EmptySet
<1>5. ASSUME NEW x \in L, a.open # 1 PROVE \E v \in L : v # x
  <2> DEFINE K == L \ {x}
  <2>1. IsFiniteSet(K) /\ Cardinality(K) = a.open - 1
    BY <1>1, <1>2, FS_RemoveElement
  <2>2. K # {}
    <3> HIDE DEF K
    <3>1. QED
      BY <1>3, <1>5, <2>1, FS_EmptySet
  <2>3. QED
    BY <2>2
<1>6. \A v \in L : v \in a.seen /\ s.level[v] = DecisionLevel(s)
  BY DEF L, OfLast
<1>7. QED
  BY <1>1, <1>2, <1>3, <1>4, <1>5, <1>6 DEF L

\* Marking only adds to the variables that are open.
LEMMA OpenGrows ==
  ASSUME NEW s, Coherent(s), NEW a, Marked(s, a), NEW t, Grows(s, a, t)
  PROVE  a.open <= t.open /\ a.open \in Nat /\ t.open \in Nat
<1> DEFINE L == OfLast(s, a.seen)
           K == OfLast(s, t.seen)
<1>1. Marked(s, t) /\ L \in SUBSET K
  BY DEF Grows, OfLast
<1>2. IsFiniteSet(K) /\ t.open = Cardinality(K) /\ t.open \in Nat /\ a.open = Cardinality(L) /\ a.open \in Nat
  BY <1>1, OpenCounts
<1> HIDE DEF L, K
<1>3. Cardinality(L) <= Cardinality(K)
  BY <1>1, <1>2, FS_Subset
<1>4. QED
  BY <1>2, <1>3

\* The last marked literal of the trail is of the last level, and the other
\* marked literals are before it; it has a reason unless it is the only one
\* of that level.
LEMMA LastSeenIs ==
  ASSUME NEW s, Coherent(s), DecisionLevel(s) > s.rootLevel, NEW a, Marked(s, a), a.open >= 1,
         NEW i, i = LastSeen(s, a), NEW x, x = Var(s.trail[i])
  PROVE  /\ i \in 1 .. a.at /\ x \in a.seen /\ x \in Vars(s) /\ s.level[x] = DecisionLevel(s)
         /\ s.trail[i] \in LitsOf(s) /\ s.trailPos[x] = i - 1 /\ \A w \in a.seen : w # x => s.trailPos[w] < i - 1
         /\ a.open # 1 => s.reason[x] # NoClause
<1> DEFINE T == {j \in 1 .. a.at : Var(s.trail[j]) \in a.seen}
<1>1. /\ a.at \in 0 .. NAssigns(s) /\ NAssigns(s) \in Nat /\ a.at \in Nat /\ a.seen \subseteq Vars(s)
      /\ \A v \in a.seen : s.assigns[v] # Undef /\ s.level[v] \in 1 .. DecisionLevel(s) /\ s.trailPos[v] < a.at
  BY Types DEF Marked, Marks
<1>2. \A w \in a.seen : /\ s.trailPos[w] \in Nat /\ s.trailPos[w] + 1 \in T /\ Var(s.trail[s.trailPos[w] + 1]) = w
  BY <1>1 DEF Coherent, Trailed
<1>3. PICK v \in a.seen : s.level[v] = DecisionLevel(s)
  BY OpenCounts
<1>4. /\ i \in T /\ \A j \in T : j <= i
  <2>1. T # {} /\ T \in SUBSET (1 .. a.at) /\ i = Max(T)
    BY <1>2, <1>3 DEF LastSeen
  <2> DEFINE n == a.at
  <2>2. n \in Nat /\ T \in SUBSET (1 .. n)
    BY <1>1, <2>1
  <2> HIDE DEF T, n
  <2>3. Max(T) \in T /\ \A y \in T : y <= Max(T)
    BY <2>1, <2>2, HasExtremes
  <2>4. QED
    BY <2>1, <2>3
<1>5. i \in 1 .. a.at /\ i \in 1 .. NAssigns(s) /\ x \in a.seen /\ x \in Vars(s)
  BY <1>1, <1>4
<1>6. s.trail[i] \in LitsOf(s) /\ At(s, s.trail[i]) = i - 1
  BY <1>5, Types DEF Coherent, Trailed
<1>7. s.trailPos[x] = i - 1
  BY <1>6 DEF At
<1>8. \A w \in a.seen : w # x => s.trailPos[w] < i - 1
  <2>1. ASSUME NEW w \in a.seen, w # x PROVE s.trailPos[w] < i - 1
    <3>1. s.trailPos[w] \in Nat /\ s.trailPos[w] + 1 <= i /\ s.trailPos[w] + 1 # i /\ i \in Nat
      BY <1>2, <1>4, <1>5, <2>1
    <3>2. QED
      BY <3>1
  <2>2. QED
    BY <2>1
<1>9. /\ DecisionLevel(s) \in Nat /\ DecisionLevel(s) >= 1 /\ LevelStart(s) = s.trailLim[DecisionLevel(s)]
      /\ LevelStart(s) \in Nat
  BY <1>1, <1>3, Types, Starts DEF LevelStart
<1>10. \A w \in a.seen : s.level[w] = DecisionLevel(s) => s.trailPos[w] >= LevelStart(s)
  <2> DEFINE k == DecisionLevel(s)
  <2>1. k \in 1 .. DecisionLevel(s)
    BY <1>9
  <2>2. ASSUME NEW w \in a.seen, s.level[w] = k PROVE s.trailPos[w] >= s.trailLim[k]
    <3>1. w \in Vars(s) /\ s.assigns[w] # Undef /\ s.level[w] >= k
      BY <1>1, <1>9, <2>2
    <3> HIDE DEF k
    <3>2. QED
      BY <2>1, <3>1, FromLevel
  <2>3. QED
    BY <1>9, <2>2
<1>11. s.level[x] = DecisionLevel(s)
  <2>1. s.trailPos[v] >= LevelStart(s) /\ s.trailPos[v] <= s.trailPos[x] /\ s.trailPos[v] \in Nat /\ s.trailPos[x] \in Nat
    BY <1>2, <1>3, <1>4, <1>5, <1>7, <1>10
  <2>2. s.trailPos[x] >= LevelStart(s)
    BY <1>9, <2>1
  <2>3. QED
    BY <1>1, <1>5, <2>2, OfLastLevel
<1>12. ASSUME a.open # 1 PROVE s.reason[x] # NoClause
  <2>1. PICK w \in a.seen : s.level[w] = DecisionLevel(s) /\ w # x
    BY <1>5, <1>11, <1>12, OpenCounts DEF OfLast
  <2>2. s.trailPos[w] >= s.trailLim[DecisionLevel(s)] /\ s.trailPos[w] < s.trailPos[x] /\ s.trailPos[w] \in Nat
    BY <1>2, <1>7, <1>8, <1>9, <1>10, <2>1
  <2>3. s.trailPos[x] # s.trailLim[s.level[x]] /\ s.level[x] # 0 /\ s.assigns[x] # Undef
    BY <1>1, <1>5, <1>9, <1>11, <2>2
  <2>4. QED
    BY <1>5, <2>3 DEF Coherent, Reasoned
<1>13. QED
  BY <1>5, <1>6, <1>7, <1>8, <1>11, <1>12

\* One round: the last literal marked gives way to what implied it.
Unmarked(a, S, n, i, ch) == [a EXCEPT !.seen = S, !.open = n, !.at = i, !.chain = ch]

\* The fields after the mark of a variable is taken away.
LEMMA UnmarkedIs ==
  ASSUME NEW a, IsMark(a), NEW S, NEW n, NEW i, NEW ch, NEW b, b = Unmarked(a, S, n, i, ch)
  PROVE  /\ IsMark(b) /\ b.seen = S /\ b.open = n /\ b.at = i /\ b.chain = ch /\ b.learnt = a.learnt /\ b.bt = a.bt
BY DEF IsMark, Unmarked

\* A round of the loop of analyze goes back on the trail and leaves an open variable.
LEMMA ResolveBackMarks ==
  ASSUME NEW s, Coherent(s), DecisionLevel(s) > s.rootLevel, NEW a, Marked(s, a), a.open >= 1,
         NEW t, t = ResolveBack(s, a)
  PROVE  IF a.open = 1 THEN t = a
         ELSE Marked(s, t) /\ t.open >= 1 /\ t.at < a.at /\ Chains(t.chain, 1)
<1>1. CASE a.open = 1
  BY <1>1 DEF ResolveBack
<1>2. CASE a.open # 1
  <2> DEFINE i == LastSeen(s, a)
             x == Var(s.trail[i])
             c == s.reason[x]
             ls == AllButOne(s.lits[c])
             S == a.seen \ {x}
             n == a.open - 1
             j == i - 1
             ch == Resolve(a.chain, c, x)
             b == Unmarked(a, S, n, j, ch)
  <2>1. t = MeetAll(s, b, ls)
    BY <1>2 DEF ResolveBack, ResolveAt, Unmarked
  <2>2. i = LastSeen(s, a) /\ x = Var(s.trail[i])
    OBVIOUS
  <2> HIDE DEF i, x
  <2>3. /\ i \in 1 .. a.at /\ x \in a.seen /\ x \in Vars(s) /\ s.level[x] = DecisionLevel(s)
        /\ s.trailPos[x] = i - 1 /\ \A w \in a.seen : w # x => s.trailPos[w] < i - 1
        /\ s.reason[x] # NoClause
    BY <1>2, <2>2, LastSeenIs
  <2>4. a.open \in Nat /\ a.open >= 2 /\ a.at \in 0 .. NAssigns(s) /\ NAssigns(s) \in Nat
    BY <1>2, OpenCounts, Types DEF Marked
  <2>5. j \in 0 .. NAssigns(s) /\ j < a.at
    BY <2>3, <2>4
  <2>6. c \in DOMAIN s.lits /\ Implies(s, s.lits[c], x)
    BY <2>3, ReasonIs
  <2>7. Passed(s, ls, j)
    <3> DEFINE cs == s.lits[c]
    <3>1. cs \in Seq(LitsOf(s)) /\ Len(cs) >= 1 /\ Len(cs) \in Nat
      BY <2>6, LitsOfClause
    <3>2. \A k \in 2 .. Len(cs) : IsFalse(s, cs[k]) /\ At(s, cs[k]) < j
      BY <2>3, <2>6 DEF Implies
    <3>3. ls = AllButOne(cs)
      OBVIOUS
    <3> HIDE DEF cs, ls, j, c
    <3>4. /\ ls \in Seq(LitsOf(s)) /\ Len(ls) = Len(cs) - 1 /\ \A k \in 1 .. Len(cs) - 1 : ls[k] = cs[k + 1]
      BY <3>1, <3>3, Rest
    <3>5. DOMAIN ls = 1 .. Len(cs) - 1 /\ \A k \in 1 .. Len(cs) - 1 : k + 1 \in 2 .. Len(cs)
      BY <3>1, <3>4
    <3>6. QED
      BY <3>2, <3>4, <3>5 DEF Passed
  <2>8. Marks(s, S, n, j)
    <3> DEFINE V == a.seen
               m == a.open
               at == a.at
    <3>1. Marks(s, V, m, at) /\ x \in V /\ \A w \in V : w # x => s.trailPos[w] < j
      BY <2>3 DEF Marked
    <3> HIDE DEF V, m, at, j
    <3>2. Marks(s, V \ {x}, m - 1, j)
      BY <2>3, <3>1, MarksRemove
    <3>3. QED
      BY <3>2 DEF V, m
  <2>9. Lowered(s, a.learnt, a.bt, S)
    <3> DEFINE V == a.seen
               l == a.learnt
               bt == a.bt
    <3>1. Lowered(s, l, bt, V)
      BY DEF Marked
    <3> HIDE DEF V, l, bt
    <3>2. Lowered(s, l, bt, V \ {x})
      BY <2>3, <3>1, LoweredKeeps
    <3>3. QED
      BY <3>2 DEF V, l, bt
  <2>10. Chains(ch, 1)
    <3>1. Chains(a.chain, 0) /\ x \in Nat
      BY <2>3, Types DEF Marked, Chains
    <3> HIDE DEF c
    <3>2. Chains(ch, 0 + 1)
      BY <3>1, ResolveChains
    <3>3. QED
      BY <3>2
  <2>11. b = Unmarked(a, S, n, j, ch) /\ IsMark(a)
    BY DEF Marked
  <2>12. n >= 1
    BY <2>4
  <2> HIDE DEF S, n, j, ch, b, ls, c
  <2>13. /\ IsMark(b) /\ b.seen = S /\ b.open = n /\ b.at = j /\ b.chain = ch /\ b.learnt = a.learnt /\ b.bt = a.bt
    BY <2>11, UnmarkedIs
  <2>14. Marked(s, b)
    BY <2>5, <2>8, <2>9, <2>10, <2>13 DEF Marked, Chains
  <2>15. Grows(s, b, t)
    BY <2>1, <2>7, <2>13, <2>14, MeetAllMarks
  <2>16. b.open <= t.open /\ b.open \in Nat /\ t.open \in Nat
    BY <2>14, <2>15, OpenGrows
  <2>17. t.open >= 1 /\ t.at < a.at
    BY <2>5, <2>12, <2>13, <2>15, <2>16 DEF Grows
  <2>18. Marked(s, t) /\ Chains(t.chain, 1)
    BY <2>10, <2>13, <2>15 DEF Grows
  <2>19. QED
    BY <1>2, <2>17, <2>18
<1>3. QED
  BY <1>1, <1>2

\* Two literals of the last level in the clause that analyze starts from.
Starting(s, confl) ==
    [seen |-> {}, open |-> 0, learnt |-> <<>>, bt |-> 0, chain |-> Chain(confl), at |-> NAssigns(s)]

\* The loop of analyze starts with nothing marked.
LEMMA StartingMarks ==
  ASSUME NEW s, Coherent(s), DecisionLevel(s) > 0, NEW confl, NEW a, a = Starting(s, confl)
  PROVE  Marked(s, a) /\ a.at = NAssigns(s)
<1> DEFINE none == <<>>
           ch == Chain(confl)
           N == NAssigns(s)
<1>1. N \in Nat /\ DecisionLevel(s) \in Nat /\ none \in Seq(LitsOf(s)) /\ DOMAIN none = {}
  BY Types
<1>2. ch.vars \in Seq(Nat)
  BY DEF Chain
<1>3. a = [seen |-> {}, open |-> 0, learnt |-> none, bt |-> 0, chain |-> ch, at |-> N]
  BY DEF Starting
<1>4. Marks(s, {}, 0, N)
  <2>1. OfLast(s, {}) = {}
    BY DEF OfLast
  <2>2. QED
    BY <2>1, FS_EmptySet DEF Marks
<1> HIDE DEF none, ch, N
<1>5. Lowered(s, none, 0, {})
  BY <1>1 DEF Lowered
<1>6. IsMark(a) /\ a.seen = {} /\ a.open = 0 /\ a.learnt = none /\ a.bt = 0 /\ a.chain = ch /\ a.at = N
  BY <1>3 DEF IsMark
<1>7. a.at \in 0 .. NAssigns(s)
  BY <1>1, <1>6 DEF N
<1>8. Marked(s, a)
  BY <1>2, <1>4, <1>5, <1>6, <1>7 DEF Marked
<1>9. QED
  BY <1>6, <1>8 DEF N

\* A clause in conflict leaves two open variables at least.
LEMMA ConflictMarks ==
  ASSUME NEW s, Coherent(s), DecisionLevel(s) > s.rootLevel, NEW confl, InConflict(s, confl),
         NEW a, a = MeetAll(s, Starting(s, confl), s.lits[confl])
  PROVE  Marked(s, a) /\ a.open >= 2 /\ a.open \in Nat /\ a.at = NAssigns(s)
<1> DEFINE ls == s.lits[confl]
           b == Starting(s, confl)
<1>1. DecisionLevel(s) \in Nat /\ s.rootLevel \in Nat /\ DecisionLevel(s) > 0 /\ NAssigns(s) \in Nat
  BY Types
<1>2. b = Starting(s, confl) /\ a = MeetAll(s, b, ls) /\ confl \in DOMAIN s.lits
  BY DEF InConflict
<1>3. /\ ls \in Seq(LitsOf(s)) /\ DOMAIN ls = 1 .. Len(ls) /\ Len(ls) \in Nat /\ Len(ls) >= 2
      /\ \A i \in 1 .. Len(ls) : ls[i] \in LitsOf(s) /\ IsFalse(s, ls[i])
      /\ Var(ls[1]) # Var(ls[2])
  BY <1>2, LitsOfClause DEF InConflict
<1>4. \A i \in {1, 2} : At(s, ls[i]) >= LevelStart(s)
  BY DEF InConflict
<1> HIDE DEF b, ls
<1>5. Marked(s, b) /\ b.at = NAssigns(s)
  BY <1>1, <1>2, StartingMarks
<1>6. \A i \in 1 .. Len(ls) : /\ At(s, ls[i]) < NAssigns(s) /\ Var(ls[i]) \in Vars(s) /\ s.assigns[Var(ls[i])] # Undef
  <2>1. ASSUME NEW i \in 1 .. Len(ls)
        PROVE  At(s, ls[i]) < NAssigns(s) /\ Var(ls[i]) \in Vars(s) /\ s.assigns[Var(ls[i])] # Undef
    <3> DEFINE q == ls[i]
    <3>1. q \in LitsOf(s) /\ IsFalse(s, q)
      BY <1>3
    <3> HIDE DEF q
    <3>2. Value(s, q) # Undef
      BY <3>1, Types, Values DEF IsFalse
    <3>3. At(s, q) \in 0 .. NAssigns(s) - 1 /\ s.assigns[Var(q)] # Undef
      BY <3>1, <3>2, OnTrail
    <3>4. QED
      BY <1>1, <3>1, <3>3, Types DEF q
  <2>2. QED
    BY <2>1
<1>7. Passed(s, ls, b.at)
  BY <1>3, <1>5, <1>6 DEF Passed
<1>8. Grows(s, b, a) /\ \A i \in DOMAIN ls : s.level[Var(ls[i])] # 0 => Var(ls[i]) \in a.seen
  BY <1>2, <1>5, <1>7, MeetAllMarks
<1>9. \A i \in {1, 2} : Var(ls[i]) \in OfLast(s, a.seen)
  <2>1. ASSUME NEW i \in {1, 2} PROVE Var(ls[i]) \in OfLast(s, a.seen)
    <3>1. i \in 1 .. Len(ls) /\ i \in DOMAIN ls
      BY <1>3
    <3> DEFINE v == Var(ls[i])
    <3>2. v \in Vars(s) /\ s.assigns[v] # Undef /\ s.trailPos[v] >= LevelStart(s)
      BY <1>4, <1>6, <3>1 DEF At
    <3>3. s.level[v] # 0 => v \in a.seen
      BY <1>8, <3>1
    <3> HIDE DEF v
    <3>4. s.level[v] = DecisionLevel(s)
      BY <3>2, OfLastLevel
    <3>5. v \in OfLast(s, a.seen)
      BY <1>1, <3>3, <3>4 DEF OfLast
    <3>6. QED
      BY <3>5 DEF v
  <2>2. QED
    BY <2>1
<1>10. Marked(s, a) /\ a.at = NAssigns(s)
  BY <1>5, <1>8 DEF Grows
<1>11. a.open \in Nat /\ a.open >= 2
  <2> DEFINE L == OfLast(s, a.seen)
             x == Var(ls[1])
             K == L \ {x}
  <2>1. x \in L /\ Var(ls[2]) \in K
    BY <1>3, <1>9
  <2>2. IsFiniteSet(L) /\ a.open = Cardinality(L) /\ a.open \in Nat
    BY <1>10, OpenCounts
  <2> HIDE DEF L, x
  <2>3. IsFiniteSet(K) /\ Cardinality(K) = a.open - 1
    BY <2>1, <2>2, FS_RemoveElement
  <2> HIDE DEF K
  <2>4. Cardinality(K) # 0 /\ Cardinality(K) \in Nat
    BY <2>1, <2>3, FS_EmptySet, FS_CardinalityType
  <2>5. QED
    BY <2>2, <2>3, <2>4
<1>12. QED
  BY <1>10, <1>11

\* Until one literal of the last level is left.
LEMMA ResolvedBackMarks ==
  ASSUME NEW s, Coherent(s), DecisionLevel(s) > s.rootLevel, NEW a, Marked(s, a), a.open >= 2, a.open \in Nat,
         a.at = NAssigns(s), NEW t, t = ResolvedBack(s, a)
  PROVE  Marked(s, t) /\ t.open = 1 /\ Chains(t.chain, 1)
<1> DEFINE n == NAssigns(s)
           f == WaysBack(s, a)
           ok(x, k) == /\ Marked(s, x) /\ x.open >= 1 /\ (x.open = 1 \/ x.at <= n - k)
                       /\ Chains(x.chain, 1) \/ x.open >= 2
           P == {k \in 0 .. n : ok(f[k], k)}
<1>1. n \in Nat /\ t = f[n]
  BY Types DEF ResolvedBack
<1>2. f[0] = a /\ \A k \in 1 .. n : f[k] = ResolveBack(s, f[k - 1])
  BY <1>1, BackSteps
<1> HIDE DEF f
<1>3. 0 \in P
  BY <1>1, <1>2
<1>4. ASSUME NEW k \in Nat, k \in P /\ k < n PROVE k + 1 \in P
  <2> DEFINE x == f[k]
             t1 == f[k + 1]
  <2>1. k + 1 \in 1 .. n /\ (k + 1) - 1 = k /\ k + 1 \in 0 .. n
    BY <1>1, <1>4
  <2>2. t1 = ResolveBack(s, x)
    BY <1>2, <2>1
  <2>3. Marked(s, x) /\ x.open >= 1 /\ (x.open = 1 \/ x.at <= n - k) /\ (Chains(x.chain, 1) \/ x.open >= 2)
    BY <1>4
  <2> HIDE DEF x, t1
  <2>4. IF x.open = 1 THEN t1 = x ELSE Marked(s, t1) /\ t1.open >= 1 /\ t1.at < x.at /\ Chains(t1.chain, 1)
    BY <2>2, <2>3, ResolveBackMarks
  <2>5. x.open # 1 => t1.at \in Int /\ x.at \in Int
    BY <1>1, <2>3, <2>4 DEF Marked
  <2>6. ok(t1, k + 1)
    BY <1>1, <2>3, <2>4, <2>5
  <2>7. QED
    BY <2>1, <2>6 DEF t1
<1>5. n \in P
  <2> HIDE DEF P
  <2>1. \A k \in 0 .. n : k \in P
    BY <1>1, <1>3, <1>4, UpTo
  <2>2. QED
    BY <1>1, <2>1
<1>6. Marked(s, t) /\ t.open >= 1 /\ (t.open = 1 \/ t.at <= n - n) /\ (Chains(t.chain, 1) \/ t.open >= 2)
  BY <1>1, <1>5
<1>7. t.open = 1
  <2>1. LastSeen(s, t) \in 1 .. t.at /\ t.at \in 0 .. NAssigns(s)
    BY <1>6, LastSeenIs DEF Marked
  <2>2. QED
    BY <1>1, <1>6, <2>1
<1>8. QED
  BY <1>6, <1>7

\* A literal in front of others.
Fronted(x, ls) == <<x>> \o ls

\* A sequence with one more member in front.
LEMMA FrontedIs ==
  ASSUME NEW T, NEW x \in T, NEW ls \in Seq(T), NEW g, g = Fronted(x, ls)
  PROVE  /\ g \in Seq(T) /\ Len(g) \in Nat /\ Len(g) >= 1 /\ g[1] = x /\ AllButOne(g) = ls
<1>1. Len(ls) \in Nat /\ DOMAIN ls = 1 .. Len(ls)
  OBVIOUS
<1>2. g \in Seq(T) /\ Len(g) = Len(ls) + 1 /\ g[1] = x /\ \A i \in 1 .. Len(ls) : g[i + 1] = ls[i]
  BY DEF Fronted
<1>3. /\ AllButOne(g) \in Seq(T) /\ Len(AllButOne(g)) = Len(ls) /\ \A i \in 1 .. Len(ls) : AllButOne(g)[i] = g[i + 1]
  <2>1. Len(g) >= 1 /\ Len(g) - 1 = Len(ls)
    BY <1>1, <1>2
  <2>2. QED
    BY <1>2, <2>1, Rest
<1>4. AllButOne(g) = ls
  <2> DEFINE h == AllButOne(g)
  <2>1. h \in Seq(T) /\ Len(h) = Len(ls) /\ \A i \in 1 .. Len(ls) : h[i] = ls[i]
    BY <1>2, <1>3
  <2> HIDE DEF h
  <2>2. h = ls
    BY <2>1
  <2>3. QED
    BY <2>2 DEF h
<1>5. QED
  BY <1>1, <1>2, <1>4

\* The literal asserted, of the last level, and the marked literals of lower
\* levels, which are those that are marked.
Asserted(s, a) ==
    /\ IsMark(a) /\ Chains(a.chain, 1)
    /\ a.learnt \in Seq(LitsOf(s)) /\ Len(a.learnt) \in Nat /\ Len(a.learnt) >= 1
    /\ IsFalse(s, a.learnt[1]) /\ s.level[Var(a.learnt[1])] = DecisionLevel(s)
    /\ a.seen \subseteq Vars(s) /\ \A v \in a.seen : s.assigns[v] # Undef /\ s.level[v] # DecisionLevel(s)
    /\ Lowered(s, AllButOne(a.learnt), a.bt, a.seen)

\* The last open literal asserts the learnt clause.
LEMMA UipAsserts ==
  ASSUME NEW s, Coherent(s), DecisionLevel(s) > s.rootLevel, NEW a, Marked(s, a), a.open = 1, Chains(a.chain, 1),
         NEW t, t = UipOf(s, a)
  PROVE  Asserted(s, t)
<1> DEFINE i == LastSeen(s, a)
           p == s.trail[i]
           x == Var(p)
           S == a.seen \ {x}
           g == Fronted(Neg(p), a.learnt)
<1>1. i = LastSeen(s, a) /\ x = Var(s.trail[i]) /\ a.open >= 1
  OBVIOUS
<1> HIDE DEF i
<1>2. /\ i \in 1 .. a.at /\ x \in a.seen /\ x \in Vars(s) /\ s.level[x] = DecisionLevel(s) /\ p \in LitsOf(s)
  <2> HIDE DEF x
  <2>1. QED
    BY <1>1, LastSeenIs
<1>3. /\ a.at \in 0 .. NAssigns(s) /\ NAssigns(s) \in Nat /\ a.learnt \in Seq(LitsOf(s)) /\ IsMark(a)
      /\ Neg(p) \in LitsOf(s) /\ Var(Neg(p)) = x
  BY <1>2, Types DEF Marked, Lowered
<1>4. t = [a EXCEPT !.seen = S, !.learnt = g]
  BY DEF UipOf, AssertLit, Fronted, i
<1> HIDE DEF S, g
<1>5. IsMark(t) /\ t.seen = S /\ t.learnt = g /\ t.bt = a.bt /\ t.chain = a.chain
  BY <1>3, <1>4 DEF IsMark
<1>6. g \in Seq(LitsOf(s)) /\ Len(g) \in Nat /\ Len(g) >= 1 /\ g[1] = Neg(p) /\ AllButOne(g) = a.learnt
  <2> DEFINE q == Neg(p)
             ls == a.learnt
  <2>1. q \in LitsOf(s) /\ ls \in Seq(LitsOf(s)) /\ g = Fronted(q, ls)
    BY <1>3 DEF g
  <2> HIDE DEF q, ls
  <2>2. g \in Seq(LitsOf(s)) /\ Len(g) \in Nat /\ Len(g) >= 1 /\ g[1] = q /\ AllButOne(g) = ls
    BY <2>1, FrontedIs
  <2>3. QED
    BY <2>2 DEF q, ls
<1>7. IsFalse(s, Neg(p))
  <2>1. Value(s, p) = True
    BY <1>2, <1>3 DEF Coherent, Trailed
  <2>2. QED
    BY <1>2, <2>1, Types, Values
<1>8. Lowered(s, a.learnt, a.bt, S)
  <2> DEFINE V == a.seen
             l == a.learnt
             bt == a.bt
  <2>1. Lowered(s, l, bt, V)
    BY DEF Marked
  <2> HIDE DEF V, l, bt, x
  <2>2. Lowered(s, l, bt, V \ {x})
    BY <1>2, <2>1, LoweredKeeps
  <2>3. QED
    BY <2>2 DEF V, l, bt, S
<1>9. S \subseteq Vars(s) /\ \A v \in S : s.assigns[v] # Undef /\ s.level[v] # DecisionLevel(s)
  <2>1. \A v \in a.seen : v \in Vars(s) /\ s.assigns[v] # Undef
    BY DEF Marked, Marks
  <2>2. \A v \in a.seen : s.level[v] = DecisionLevel(s) => v = x
    <3>1. x \in OfLast(s, a.seen) /\ a.open \in Nat
      BY <1>2 DEF OfLast
    <3> DEFINE L == OfLast(s, a.seen)
               K == L \ {x}
    <3>2. IsFiniteSet(L) /\ a.open = Cardinality(L)
      BY OpenCounts
    <3> HIDE DEF L
    <3>3. IsFiniteSet(K) /\ Cardinality(K) = 0
      BY <3>1, <3>2, FS_RemoveElement DEF L
    <3> HIDE DEF K
    <3>4. K = {}
      BY <3>3, FS_EmptySet
    <3>5. QED
      BY <3>4 DEF K, L, OfLast
  <2>3. QED
    BY <2>1, <2>2 DEF S
<1>10. IsFalse(s, t.learnt[1]) /\ s.level[Var(t.learnt[1])] = DecisionLevel(s)
  BY <1>2, <1>3, <1>5, <1>6, <1>7
<1>11. Lowered(s, AllButOne(t.learnt), t.bt, t.seen)
  BY <1>5, <1>6, <1>8
<1>12. QED
  BY <1>5, <1>6, <1>9, <1>10, <1>11 DEF Asserted

-----------------------------------------------------------------------------
(***************************************************************************)
(* analyze, second half: literals that others imply.  V are the variables  *)
(* of the literals that may be dropped.                                    *)
(***************************************************************************)
Causes(s, v) == Range(AllButOne(s.lits[s.reason[v]]))

\* All that implies v is of level 0, in V or itself so caused.
Caused(s, R, v) == \A q \in Causes(s, v) : s.level[Var(q)] = 0 \/ Var(q) \in R
OnStack(m, v) == \E i \in DOMAIN m.stack : Var(m.stack[i]) = v

IsWeed(m) == DOMAIN m = {"seen", "stack", "clear", "ok", "learnt"}

\* In the middle of the search for the causes of x: what is met is caused or
\* will be looked at, E being looked at now.
Tries(s, V, m, x, E) ==
    /\ IsWeed(m) /\ m.stack \in Seq(LitsOf(s)) /\ m.clear \subseteq Vars(s)
    /\ m.seen \subseteq Vars(s) /\ m.seen \subseteq V \cup m.clear
    /\ \A v \in m.clear \cup {x} :
         s.reason[v] # NoClause /\ (v \in E \/ OnStack(m, v) \/ Caused(s, V \cup m.clear, v))
    /\ \A i \in DOMAIN m.stack : s.reason[Var(m.stack[i])] # NoClause

Attempt(s, V, m, x, E) == IsWeed(m) /\ (m.ok => Tries(s, V, m, x, E))

\* Every round of the search takes up some of the room there is.
Room(s, m, n) == n \in Int /\ Cardinality(Vars(s) \ m.seen) + Len(m.stack) <= n

Widens(m, t) == m.seen \subseteq t.seen /\ m.clear \subseteq t.clear
Tightens(s, m, t) == \A n : Room(s, m, n) => Room(s, t, n)
Shrinks(s, m, t) == \A n : Room(s, m, n) => Room(s, t, n - 1)
Met(s, t, ls) == \A i \in DOMAIN ls : s.level[Var(ls[i])] = 0 \/ Var(ls[i]) \in t.seen

Marking(m, S, st, C) == [m EXCEPT !.seen = S, !.stack = st, !.clear = C]

\* The fields after a mark of analyze_removable.
LEMMA MarkingIs ==
  ASSUME NEW m, IsWeed(m), NEW S, NEW st, NEW C, NEW t, t = Marking(m, S, st, C)
  PROVE  IsWeed(t) /\ t.seen = S /\ t.stack = st /\ t.clear = C /\ t.ok = m.ok /\ t.learnt = m.learnt
BY DEF IsWeed, Marking

\* One literal is met.
Meets(s, V, m, t, x, E, q) ==
    /\ IsWeed(t) /\ t.learnt = m.learnt
    /\ t.ok => /\ m.ok /\ Tries(s, V, t, x, E) /\ Widens(m, t)
               /\ s.level[Var(q)] = 0 \/ Var(q) \in t.seen
               /\ \A n : Room(s, m, n) => Room(s, t, n)

\* Meeting a cause keeps what a try has established.
LEMMA MeetCauseTries ==
  ASSUME NEW s, Coherent(s), NEW V, NEW m, IsWeed(m), NEW x, NEW E, m.ok => Tries(s, V, m, x, E),
         NEW q \in LitsOf(s), NEW levels, NEW t, t = MeetCause(s, m, q, levels)
  PROVE  Meets(s, V, m, t, x, E, q)
<1> DEFINE v == Var(q)
<1>1. v \in Vars(s)
  BY DEF LitsOf
<1>2. CASE ~m.ok \/ v \in m.seen \/ s.level[v] = 0
  <2>1. t = m
    BY <1>2 DEF MeetCause
  <2>2. QED
    BY <1>2, <2>1 DEF Meets, Widens
<1>3. CASE /\ m.ok /\ v \notin m.seen /\ s.level[v] # 0
           /\ s.reason[v] # NoClause /\ s.level[v] % 32 \in levels
  <2> DEFINE S == m.seen \cup {v}
             st == Append(m.stack, q)
             C == m.clear \cup {v}
  <2>1. t = [m EXCEPT !.seen = S, !.stack = st, !.clear = C]
    BY <1>3 DEF MeetCause
  <2>2. t = Marking(m, S, st, C)
    BY <2>1 DEF Marking
  <2>3. /\ m.stack \in Seq(LitsOf(s)) /\ m.clear \subseteq Vars(s) /\ m.seen \subseteq Vars(s)
        /\ m.seen \subseteq V \cup m.clear /\ Len(m.stack) \in Nat /\ DOMAIN m.stack = 1 .. Len(m.stack)
    BY <1>3 DEF Tries
  <2>4. /\ st \in Seq(LitsOf(s)) /\ Len(st) = Len(m.stack) + 1 /\ DOMAIN st = 1 .. Len(m.stack) + 1
        /\ st[Len(m.stack) + 1] = q /\ \A i \in 1 .. Len(m.stack) : st[i] = m.stack[i]
    <3>1. LitsOf(s) \cup {q} = LitsOf(s)
      OBVIOUS
    <3>2. QED
      BY <2>3, <3>1, RangeAppend
  <2> HIDE DEF S, st, C
  <2>5. IsWeed(t) /\ t.seen = S /\ t.stack = st /\ t.clear = C /\ t.ok = m.ok /\ t.learnt = m.learnt
    BY <2>2, MarkingIs
  <2>6. \A w : OnStack(m, w) => OnStack(t, w)
    <3>1. ASSUME NEW w, OnStack(m, w) PROVE OnStack(t, w)
      <4>1. PICK i \in 1 .. Len(m.stack) : Var(m.stack[i]) = w
        BY <2>3, <3>1 DEF OnStack
      <4>2. i \in DOMAIN st /\ st[i] = m.stack[i]
        BY <2>3, <2>4
      <4>3. QED
        BY <2>5, <4>1, <4>2 DEF OnStack
    <3>2. QED
      BY <3>1
  <2>7. OnStack(t, v)
    <3>1. Len(m.stack) + 1 \in DOMAIN st /\ Var(st[Len(m.stack) + 1]) = v
      BY <2>3, <2>4
    <3>2. QED
      BY <2>5, <3>1 DEF OnStack
  <2>8. \A w : Caused(s, V \cup m.clear, w) => Caused(s, V \cup t.clear, w)
    BY <2>5 DEF Caused, C
  <2>9. \A w \in t.clear \cup {x} :
          s.reason[w] # NoClause /\ (w \in E \/ OnStack(t, w) \/ Caused(s, V \cup t.clear, w))
    <3>1. \A w \in m.clear \cup {x} :
            s.reason[w] # NoClause /\ (w \in E \/ OnStack(m, w) \/ Caused(s, V \cup m.clear, w))
      BY <1>3 DEF Tries
    <3>2. \A w \in t.clear \cup {x} : w \in m.clear \cup {x} \/ w = v
      BY <2>5 DEF C
    <3>3. QED
      BY <1>3, <2>6, <2>7, <2>8, <3>1, <3>2
  <2>10. \A i \in DOMAIN t.stack : s.reason[Var(t.stack[i])] # NoClause
    <3>1. \A i \in DOMAIN m.stack : s.reason[Var(m.stack[i])] # NoClause
      BY <1>3 DEF Tries
    <3>2. \A i \in DOMAIN st : i \in 1 .. Len(m.stack) \/ i = Len(m.stack) + 1
      BY <2>3, <2>4
    <3>3. QED
      BY <1>3, <2>3, <2>4, <2>5, <3>1, <3>2
  <2>11. t.clear \subseteq Vars(s) /\ t.seen \subseteq Vars(s) /\ t.seen \subseteq V \cup t.clear /\ Widens(m, t) /\ v \in t.seen
    BY <1>1, <2>3, <2>5 DEF S, C, Widens
  <2>12. Tries(s, V, t, x, E)
    BY <2>4, <2>5, <2>9, <2>10, <2>11 DEF Tries
  <2>13. \A n : Room(s, m, n) => Room(s, t, n)
    <3> DEFINE A == Vars(s) \ m.seen
               B == Vars(s) \ t.seen
    <3>1. IsFiniteSet(Vars(s)) /\ A \in SUBSET Vars(s) /\ B = A \ {v} /\ v \in A
      BY <1>1, <1>3, <2>5, Types DEF S
    <3> HIDE DEF A, B
    <3>2. IsFiniteSet(A)
      BY <3>1, FS_Subset
    <3>3. Cardinality(B) = Cardinality(A) - 1 /\ Cardinality(A) \in Nat
      BY <3>1, <3>2, FS_RemoveElement, FS_CardinalityType
    <3>4. Cardinality(B) + Len(t.stack) = Cardinality(A) + Len(m.stack)
      BY <2>3, <2>4, <2>5, <3>3
    <3>5. QED
      BY <3>4 DEF Room, A, B
  <2>14. QED
    BY <1>3, <2>5, <2>11, <2>12, <2>13 DEF Meets
<1>4. CASE /\ m.ok /\ v \notin m.seen /\ s.level[v] # 0
           /\ ~(s.reason[v] # NoClause /\ s.level[v] % 32 \in levels)
  <2>1. t = [m EXCEPT !.ok = FALSE]
    BY <1>4 DEF MeetCause
  <2>2. IsWeed(t) /\ t.learnt = m.learnt /\ ~t.ok
    BY <2>1 DEF IsWeed
  <2>3. QED
    BY <2>2 DEF Meets
<1>5. QED
  BY <1>2, <1>3, <1>4

\* All that implies one literal is met.
LEMMA MeetCausesTry ==
  ASSUME NEW s, Coherent(s), NEW V, NEW m, NEW x, NEW E, Attempt(s, V, m, x, E),
         NEW ls \in Seq(LitsOf(s)), NEW levels, NEW t, t = MeetCauses(s, m, ls, levels)[Len(ls)]
  PROVE  /\ IsWeed(t) /\ t.learnt = m.learnt
         /\ t.ok => m.ok /\ Tries(s, V, t, x, E) /\ Widens(m, t) /\ Met(s, t, ls) /\ Tightens(s, m, t)
<1> DEFINE n == Len(ls)
           f == MeetCauses(s, m, ls, levels)
           ok(y, k) == /\ IsWeed(y) /\ y.learnt = m.learnt
                       /\ y.ok => /\ m.ok /\ Tries(s, V, y, x, E) /\ Widens(m, y)
                                  /\ \A i \in 1 .. k : s.level[Var(ls[i])] = 0 \/ Var(ls[i]) \in y.seen
                                  /\ \A r : Room(s, m, r) => Room(s, y, r)
           P == {k \in 0 .. n : ok(f[k], k)}
<1>1. n \in Nat /\ DOMAIN ls = 1 .. n /\ \A k \in 1 .. n : ls[k] \in LitsOf(s)
  OBVIOUS
<1>2. f[0] = m /\ \A k \in 1 .. n : f[k] = MeetCause(s, f[k - 1], ls[k], levels)
  BY <1>1, CauseSteps
<1> HIDE DEF f
<1>3. 0 \in P
  BY <1>1, <1>2 DEF Attempt, Widens
<1>4. ASSUME NEW k \in Nat, k \in P /\ k < n PROVE k + 1 \in P
  <2> DEFINE y == f[k]
             t1 == f[k + 1]
             q == ls[k + 1]
  <2>1. k + 1 \in 1 .. n /\ (k + 1) - 1 = k /\ k + 1 \in 0 .. n
    BY <1>1, <1>4
  <2>2. t1 = MeetCause(s, y, q, levels) /\ q \in LitsOf(s)
    BY <1>1, <1>2, <2>1
  <2>3. ok(y, k)
    BY <1>4
  <2> HIDE DEF y, t1
  <2>4. Meets(s, V, y, t1, x, E, q)
    <3>1. IsWeed(y) /\ (y.ok => Tries(s, V, y, x, E))
      BY <2>3
    <3> HIDE DEF q
    <3>2. QED
      BY <2>2, <3>1, MeetCauseTries
  <2>5. ASSUME t1.ok
        PROVE  /\ m.ok /\ Tries(s, V, t1, x, E) /\ Widens(m, t1)
               /\ \A i \in 1 .. k + 1 : s.level[Var(ls[i])] = 0 \/ Var(ls[i]) \in t1.seen
               /\ \A r : Room(s, m, r) => Room(s, t1, r)
    <3>1. /\ y.ok /\ Tries(s, V, t1, x, E) /\ Widens(y, t1)
          /\ s.level[Var(q)] = 0 \/ Var(q) \in t1.seen
          /\ \A r : Room(s, y, r) => Room(s, t1, r)
      BY <2>4, <2>5 DEF Meets
    <3>2. /\ m.ok /\ Widens(m, y)
          /\ \A i \in 1 .. k : s.level[Var(ls[i])] = 0 \/ Var(ls[i]) \in y.seen
          /\ \A r : Room(s, m, r) => Room(s, y, r)
      BY <2>3, <3>1
    <3>3. \A i \in 1 .. k + 1 : i \in 1 .. k \/ i = k + 1
      OBVIOUS
    <3>4. \A i \in 1 .. k + 1 : s.level[Var(ls[i])] = 0 \/ Var(ls[i]) \in t1.seen
      BY <3>1, <3>2, <3>3 DEF Widens
    <3>5. QED
      BY <3>1, <3>2, <3>4 DEF Widens
  <2>6. IsWeed(t1) /\ t1.learnt = m.learnt
    BY <2>3, <2>4 DEF Meets
  <2>7. ok(t1, k + 1)
    BY <2>5, <2>6
  <2>8. QED
    BY <2>1, <2>7 DEF t1
<1>5. n \in P
  <2> HIDE DEF P
  <2>1. \A k \in 0 .. n : k \in P
    BY <1>1, <1>3, <1>4, UpTo
  <2>2. QED
    BY <1>1, <2>1
<1>6. ok(t, n)
  BY <1>5 DEF f
<1>7. QED
  BY <1>1, <1>6 DEF Met, Tightens

Nothing == {}

\* The last of the stack is taken off it.
LEMMA PoppedTries ==
  ASSUME NEW s, Coherent(s), NEW V, NEW m, NEW x, Tries(s, V, m, x, Nothing), m.stack # <<>>,
         NEW top, top = Last(m.stack), NEW E, E = {Var(top)}, NEW t, t = Popped(m)
  PROVE  /\ Tries(s, V, t, x, E) /\ t.ok = m.ok /\ t.learnt = m.learnt /\ Widens(m, t)
         /\ top \in LitsOf(s) /\ s.reason[Var(top)] # NoClause
         /\ Shrinks(s, m, t)
<1> DEFINE g == Front(m.stack)
           l == Len(m.stack)
<1>1. /\ IsWeed(m) /\ m.stack \in Seq(LitsOf(s)) /\ l \in Nat /\ l >= 1 /\ DOMAIN m.stack = 1 .. l
  BY DEF Tries
<1>2. t = [m EXCEPT !.stack = g]
  BY DEF Popped
<1>3. top = m.stack[l] /\ g = SubSeq(m.stack, 1, l - 1)
  BY DEF Last, Front
<1>4. g \in Seq(LitsOf(s)) /\ Len(g) = l - 1 /\ DOMAIN g = 1 .. l - 1 /\ \A i \in 1 .. l - 1 : g[i] = m.stack[i]
  <2> DEFINE k == l - 1
             st == m.stack
  <2>1. k \in 0 .. Len(st) /\ st \in Seq(LitsOf(s)) /\ g = SubSeq(st, 1, k)
    BY <1>1, <1>3
  <2> HIDE DEF k, st, g
  <2>2. g \in Seq(LitsOf(s)) /\ Len(g) = k /\ \A i \in 1 .. k : g[i] = st[i]
    BY <2>1, Prefix
  <2>3. DOMAIN g = 1 .. k
    BY <2>2
  <2>4. QED
    BY <2>2, <2>3 DEF k, st
<1> HIDE DEF g
<1>5. /\ IsWeed(t) /\ t.seen = m.seen /\ t.stack = g /\ t.clear = m.clear /\ t.ok = m.ok /\ t.learnt = m.learnt
  BY <1>1, <1>2 DEF IsWeed
<1>6. top \in LitsOf(s) /\ s.reason[Var(top)] # NoClause
  BY <1>1, <1>3 DEF Tries
<1>7. \A v : OnStack(m, v) => OnStack(t, v) \/ v \in E
  <2>1. ASSUME NEW v, OnStack(m, v), v # Var(top) PROVE OnStack(t, v)
    <3>1. PICK i \in 1 .. l : Var(m.stack[i]) = v
      BY <1>1, <2>1 DEF OnStack
    <3>2. i # l
      BY <1>3, <2>1, <3>1
    <3>3. i \in DOMAIN g /\ g[i] = m.stack[i]
      BY <1>1, <1>4, <3>2
    <3>4. QED
      BY <1>5, <3>1, <3>3 DEF OnStack
  <2>2. QED
    BY <2>1
<1>8. \A v \in t.clear \cup {x} :
        s.reason[v] # NoClause /\ (v \in E \/ OnStack(t, v) \/ Caused(s, V \cup t.clear, v))
  <2>1. \A v \in m.clear \cup {x} :
          s.reason[v] # NoClause /\ (OnStack(m, v) \/ Caused(s, V \cup m.clear, v))
    BY DEF Tries, Nothing
  <2>2. QED
    BY <1>5, <1>7, <2>1
<1>9. \A i \in DOMAIN t.stack : s.reason[Var(t.stack[i])] # NoClause
  <2>1. \A i \in 1 .. l : s.reason[Var(m.stack[i])] # NoClause
    BY <1>1 DEF Tries
  <2>2. QED
    BY <1>1, <1>4, <1>5, <2>1
<1>10. Tries(s, V, t, x, E)
  BY <1>4, <1>5, <1>8, <1>9 DEF Tries
<1>11. \A n : Room(s, m, n) => Room(s, t, n - 1)
  <2> DEFINE A == Vars(s) \ m.seen
             N == Cardinality(A)
  <2>1. N \in Nat
    <3>1. IsFiniteSet(Vars(s)) /\ A \in SUBSET Vars(s)
      BY Types
    <3> HIDE DEF A
    <3>2. IsFiniteSet(A)
      BY <3>1, FS_Subset
    <3>3. QED
      BY <3>2, FS_CardinalityType
  <2>2. \A n : Room(s, m, n) <=> n \in Int /\ N + l <= n
    BY DEF Room
  <2>3. \A n : Room(s, t, n) <=> n \in Int /\ N + (l - 1) <= n
    BY <1>4, <1>5 DEF Room
  <2> HIDE DEF N
  <2>4. QED
    BY <1>1, <2>1, <2>2, <2>3
<1>12. QED
  BY <1>5, <1>6, <1>10, <1>11 DEF Shrinks, Widens

\* One round of the search.
LEMMA PopCauseTries ==
  ASSUME NEW s, Coherent(s), NEW V, NEW m, NEW x, Attempt(s, V, m, x, Nothing), NEW levels, NEW t, t = PopCause(s, m, levels)
  PROVE  /\ IsWeed(t) /\ t.learnt = m.learnt
         /\ t.ok => /\ m.ok /\ Tries(s, V, t, x, Nothing) /\ Widens(m, t)
                    /\ m.stack = <<>> => t = m
                    /\ m.stack # <<>> => Shrinks(s, m, t)
<1>1. CASE ~m.ok \/ m.stack = <<>>
  <2>1. t = m
    BY <1>1 DEF PopCause
  <2>2. QED
    BY <1>1, <2>1 DEF Attempt, Widens
<1>2. CASE m.ok /\ m.stack # <<>>
  <2> DEFINE top == Last(m.stack)
             p == Popped(m)
             c == s.reason[Var(top)]
             cs == s.lits[c]
             ls == CausesOf(s, top)
             E == {Var(top)}
  <2>1. t = MeetCauses(s, p, ls, levels)[Len(ls)]
    BY <1>2 DEF PopCause, PopOf
  <2>2. top = Last(m.stack) /\ p = Popped(m) /\ E = {Var(top)} /\ Tries(s, V, m, x, Nothing) /\ m.stack # <<>>
    BY <1>2 DEF Attempt
  <2>3. ls = AllButOne(cs)
    BY DEF CausesOf
  <2> HIDE DEF top, p, E, ls
  <2>4. /\ Tries(s, V, p, x, E) /\ p.ok = m.ok /\ p.learnt = m.learnt /\ Widens(m, p)
        /\ top \in LitsOf(s) /\ c # NoClause
        /\ Shrinks(s, m, p)
    BY <2>2, PoppedTries
  <2>5. c \in DOMAIN s.lits
    <3>1. Var(top) \in Vars(s)
      BY <2>4 DEF LitsOf
    <3>2. QED
      BY <2>4, <3>1, ReasonIs
  <2>6. ls \in Seq(LitsOf(s)) /\ DOMAIN ls = 1 .. Len(ls)
    <3>1. cs \in Seq(LitsOf(s)) /\ Len(cs) >= 1
      BY <2>5, LitsOfClause
    <3> HIDE DEF cs
    <3>2. ls \in Seq(LitsOf(s))
      BY <2>3, <3>1, Rest
    <3>3. QED
      BY <3>2
  <2>7. Attempt(s, V, p, x, E)
    BY <2>4 DEF Tries, Attempt
  <2>8. /\ IsWeed(t) /\ t.learnt = p.learnt
        /\ t.ok => p.ok /\ Tries(s, V, t, x, E) /\ Widens(p, t) /\ Met(s, t, ls) /\ Tightens(s, p, t)
    BY <2>1, <2>6, <2>7, MeetCausesTry
  <2>9. ASSUME t.ok PROVE Tries(s, V, t, x, Nothing)
    <3>1. Tries(s, V, t, x, E) /\ \A i \in DOMAIN ls : s.level[Var(ls[i])] = 0 \/ Var(ls[i]) \in t.seen
      BY <2>8, <2>9 DEF Met
    <3>2. Caused(s, V \cup t.clear, Var(top))
      <4>1. Causes(s, Var(top)) = Range(ls)
        BY <2>3 DEF Causes
      <4>2. \A q \in Range(ls) : \E i \in DOMAIN ls : q = ls[i]
        BY DEF Range
      <4>3. t.seen \subseteq V \cup t.clear
        BY <3>1 DEF Tries
      <4>4. QED
        BY <3>1, <4>1, <4>2, <4>3 DEF Caused
    <3>3. \A v \in E : Caused(s, V \cup t.clear, v)
      BY <2>2, <3>2
    <3>4. \A v \in t.clear \cup {x} : v \in Nothing \/ OnStack(t, v) \/ Caused(s, V \cup t.clear, v)
      BY <3>1, <3>3 DEF Tries
    <3>5. QED
      BY <3>1, <3>4 DEF Tries
  <2>10. ASSUME t.ok PROVE Shrinks(s, m, t)
    BY <2>4, <2>8, <2>10 DEF Shrinks, Tightens
  <2>11. t.ok => Widens(m, t)
    BY <2>4, <2>8 DEF Widens
  <2>12. QED
    BY <1>2, <2>4, <2>8, <2>9, <2>10, <2>11
<1>3. QED
  BY <1>1, <1>2

\* The search as a whole: if it goes well everything has been looked at.
LEMMA RemovableIs ==
  ASSUME NEW s, Coherent(s), NEW V, NEW m, NEW x, Tries(s, V, m, x, Nothing), Len(m.stack) = 1, NEW levels, NEW t, t = Removable(s, m, levels)
  PROVE  /\ IsWeed(t) /\ t.learnt = m.learnt
         /\ t.ok => Tries(s, V, t, x, Nothing) /\ t.stack = <<>> /\ Widens(m, t)
<1> DEFINE N == Cardinality(Vars(s))
           n == N + 1
           f == Pops(s, m, levels)
           ok(y, k) == /\ IsWeed(y) /\ y.learnt = m.learnt
                       /\ y.ok => Tries(s, V, y, x, Nothing) /\ Widens(m, y) /\ (y.stack = <<>> \/ Room(s, y, n - k))
           P == {k \in 0 .. n : ok(f[k], k)}
<1>1. N \in Nat /\ n \in Nat
  BY Types, FS_CardinalityType
<1>2. t = f[n]
  BY DEF Removable
<1>3. f[0] = m /\ \A k \in 1 .. n : f[k] = PopCause(s, f[k - 1], levels)
  BY <1>1, PopSteps
<1> HIDE DEF f
<1>4. \A y : IsFiniteSet(Vars(s) \ y.seen) /\ Cardinality(Vars(s) \ y.seen) \in Nat /\ Cardinality(Vars(s) \ y.seen) <= N
  <2>1. ASSUME NEW y
        PROVE  IsFiniteSet(Vars(s) \ y.seen) /\ Cardinality(Vars(s) \ y.seen) \in Nat /\ Cardinality(Vars(s) \ y.seen) <= N
    <3> DEFINE A == Vars(s) \ y.seen
    <3>1. A \in SUBSET Vars(s) /\ IsFiniteSet(Vars(s))
      BY Types
    <3> HIDE DEF A
    <3>2. IsFiniteSet(A) /\ Cardinality(A) <= N
      BY <3>1, FS_Subset
    <3>3. QED
      BY <3>2, FS_CardinalityType DEF A
  <2>2. QED
    BY <2>1
<1>5. 0 \in P
  <2>1. Room(s, m, n - 0)
    <3> DEFINE M == Cardinality(Vars(s) \ m.seen)
    <3>1. M \in Nat /\ M <= N
      BY <1>4
    <3> HIDE DEF M, N
    <3>2. n - 0 \in Int /\ M + 1 <= n - 0
      BY <1>1, <3>1
    <3>3. QED
      BY <3>2 DEF Room, M
  <2>2. ok(m, 0)
    BY <2>1 DEF Tries, Widens
  <2>3. QED
    BY <1>1, <1>3, <2>2
<1>6. ASSUME NEW k \in Nat, k \in P /\ k < n PROVE k + 1 \in P
  <2> DEFINE y == f[k]
             t1 == f[k + 1]
             r == n - k
  <2>1. k + 1 \in 1 .. n /\ (k + 1) - 1 = k /\ k + 1 \in 0 .. n /\ r - 1 = n - (k + 1)
    BY <1>1, <1>6
  <2>2. t1 = PopCause(s, y, levels)
    BY <1>3, <2>1
  <2>3. /\ IsWeed(y) /\ y.learnt = m.learnt
        /\ y.ok => Tries(s, V, y, x, Nothing) /\ Widens(m, y) /\ (y.stack = <<>> \/ Room(s, y, r))
    BY <1>6
  <2> HIDE DEF y, t1, r
  <2>4. /\ IsWeed(t1) /\ t1.learnt = y.learnt
        /\ t1.ok => /\ y.ok /\ Tries(s, V, t1, x, Nothing) /\ Widens(y, t1)
                    /\ y.stack = <<>> => t1 = y
                    /\ y.stack # <<>> => Shrinks(s, y, t1)
    <3>1. Attempt(s, V, y, x, Nothing)
      BY <2>3 DEF Attempt
    <3>2. QED
      BY <2>2, <3>1, PopCauseTries
  <2>5. t1.ok => t1.stack = <<>> \/ Room(s, t1, r - 1)
    BY <2>3, <2>4 DEF Shrinks
  <2>6. t1.ok => Widens(m, t1)
    BY <2>3, <2>4 DEF Widens
  <2>6a. ok(t1, k + 1)
    BY <2>1, <2>3, <2>4, <2>5, <2>6
  <2>7. QED
    BY <2>1, <2>6a DEF t1
<1>7. n \in P
  <2> HIDE DEF P
  <2>1. \A k \in 0 .. n : k \in P
    BY <1>1, <1>5, <1>6, UpTo
  <2>2. QED
    BY <1>1, <2>1
<1>8. /\ IsWeed(t) /\ t.learnt = m.learnt
      /\ t.ok => Tries(s, V, t, x, Nothing) /\ Widens(m, t) /\ (t.stack = <<>> \/ Room(s, t, n - n))
  BY <1>2, <1>7
<1>9. ASSUME t.ok, Room(s, t, n - n) PROVE t.stack = <<>>
  <2>1. t.stack \in Seq(LitsOf(s)) /\ Len(t.stack) \in Nat
    BY <1>8, <1>9 DEF Tries
  <2>2. Cardinality(Vars(s) \ t.seen) \in Nat /\ Cardinality(Vars(s) \ t.seen) + Len(t.stack) <= n - n /\ n - n = 0
    <3>1. n - n = 0
      BY <1>1
    <3>2. Cardinality(Vars(s) \ t.seen) + Len(t.stack) <= n - n
      BY <1>9 DEF Room
    <3>3. QED
      BY <1>4, <3>1, <3>2
  <2>3. Len(t.stack) = 0
    BY <2>1, <2>2
  <2>4. QED
    BY <2>1, <2>3
<1>10. QED
  BY <1>8, <1>9

\* Between two literals of the clause: what was marked for removal is caused by
\* what is kept, and a literal that was looked at is kept or marked.
Weeded(s, V, m) ==
    /\ IsWeed(m) /\ m.ok /\ m.clear \subseteq Vars(s) /\ m.seen \subseteq Vars(s) /\ m.seen \subseteq V \cup m.clear
    /\ \A v \in m.clear : s.reason[v] # NoClause /\ Caused(s, V \cup m.clear, v)
Sifted(s, first, rest, k, m) ==
    /\ m.learnt \in Seq(LitsOf(s)) /\ Len(m.learnt) >= 1 /\ m.learnt[1] = first
    /\ \A i \in 2 .. Len(m.learnt) : \E j \in 1 .. k : m.learnt[i] = rest[j]
    /\ \A i, j \in 2 .. Len(m.learnt) : Var(m.learnt[i]) = Var(m.learnt[j]) => i = j
    /\ \A j \in 1 .. k : Var(rest[j]) \in m.clear \/ \E i \in 2 .. Len(m.learnt) : m.learnt[i] = rest[j]
Differs(rest) == \A i, j \in DOMAIN rest : Var(rest[i]) = Var(rest[j]) => i = j

\* A literal is kept.
LEMMA SiftedKeeps ==
  ASSUME NEW s, NEW first, NEW rest \in Seq(LitsOf(s)), Differs(rest), NEW k \in Nat, k < Len(rest),
         NEW m, Sifted(s, first, rest, k, m),
         NEW t, t.learnt = Append(m.learnt, rest[k + 1]), t.clear = m.clear
  PROVE  Sifted(s, first, rest, k + 1, t)
<1> DEFINE l == m.learnt
           g == Append(l, rest[k + 1])
           n == Len(l)
           p == rest[k + 1]
<1>1. /\ l \in Seq(LitsOf(s)) /\ n \in Nat /\ n >= 1 /\ l[1] = first /\ p \in LitsOf(s) /\ k + 1 \in DOMAIN rest
      /\ DOMAIN rest = 1 .. Len(rest) /\ Len(rest) \in Nat
  BY DEF Sifted
<1>2. /\ \A i \in 2 .. n : \E j \in 1 .. k : l[i] = rest[j]
      /\ \A i, j \in 2 .. n : Var(l[i]) = Var(l[j]) => i = j
      /\ \A j \in 1 .. k : Var(rest[j]) \in m.clear \/ \E i \in 2 .. n : l[i] = rest[j]
  BY DEF Sifted
<1>3. g \in Seq(LitsOf(s)) /\ Len(g) = n + 1 /\ g[n + 1] = p /\ \A i \in 1 .. n : g[i] = l[i]
  <2>1. LitsOf(s) \cup {p} = LitsOf(s)
    BY <1>1
  <2> HIDE DEF p, l
  <2>2. QED
    BY <1>1, <2>1, RangeAppend DEF p
<1>4. t.learnt = g /\ t.clear = m.clear
  OBVIOUS
<1> HIDE DEF g, l, n, p
<1>5. \A i \in 2 .. n + 1 : i \in 2 .. n \/ i = n + 1
  BY <1>1
<1>6. \A i \in 2 .. n : \E j \in 1 .. k : g[i] = rest[j]
  <2>1. \A i \in 2 .. n : i \in 1 .. n
    BY <1>1
  <2>2. QED
    BY <1>2, <1>3, <2>1
<1>7. k + 1 \in 1 .. k + 1 /\ g[n + 1] = rest[k + 1] /\ \A j \in 1 .. k : j \in 1 .. k + 1 /\ j \in DOMAIN rest /\ j # k + 1
  BY <1>1, <1>3 DEF p
<1>8. \A i \in 2 .. n + 1 : \E j \in 1 .. k + 1 : g[i] = rest[j]
  <2>1. ASSUME NEW i \in 2 .. n + 1 PROVE \E j \in 1 .. k + 1 : g[i] = rest[j]
    <3>1. CASE i = n + 1
      BY <1>7, <3>1
    <3>2. CASE i \in 2 .. n
      BY <1>6, <1>7, <3>2
    <3>3. QED
      BY <1>5, <3>1, <3>2
  <2>2. QED
    BY <2>1
<1>9. \A i \in 2 .. n : Var(g[i]) # Var(g[n + 1])
  <2>1. ASSUME NEW i \in 2 .. n PROVE Var(g[i]) # Var(g[n + 1])
    <3>1. PICK j \in 1 .. k : g[i] = rest[j]
      BY <1>6
    <3>2. Var(rest[j]) # Var(rest[k + 1])
      BY <1>1, <1>7 DEF Differs
    <3>3. QED
      BY <1>7, <3>1, <3>2
  <2>2. QED
    BY <2>1
<1>10. \A i, j \in 2 .. n + 1 : Var(g[i]) = Var(g[j]) => i = j
  <2>1. \A i, j \in 2 .. n : Var(g[i]) = Var(g[j]) => i = j
    <3>1. \A i \in 2 .. n : g[i] = l[i]
      BY <1>1, <1>3
    <3>2. QED
      BY <1>2, <3>1
  <2>2. QED
    BY <1>5, <1>9, <2>1
<1>11. \A j \in 1 .. k + 1 : Var(rest[j]) \in m.clear \/ \E i \in 2 .. n + 1 : g[i] = rest[j]
  <2>1. ASSUME NEW j \in 1 .. k + 1, Var(rest[j]) \notin m.clear PROVE \E i \in 2 .. n + 1 : g[i] = rest[j]
    <3>1. CASE j = k + 1
      <4>1. n + 1 \in 2 .. n + 1
        BY <1>1
      <4>2. QED
        BY <1>7, <3>1, <4>1
    <3>2. CASE j \in 1 .. k
      <4>1. PICK i \in 2 .. n : l[i] = rest[j]
        BY <1>2, <2>1, <3>2
      <4>2. i \in 2 .. n + 1 /\ g[i] = l[i]
        BY <1>1, <1>3
      <4>3. QED
        BY <4>1, <4>2
    <3>3. QED
      BY <3>1, <3>2
  <2>2. QED
    BY <2>1
<1>12. g[1] = first /\ Len(g) >= 1
  BY <1>1, <1>3
<1>13. QED
  BY <1>3, <1>4, <1>8, <1>10, <1>11, <1>12 DEF Sifted

\* A literal is marked for removal.
LEMMA SiftedDrops ==
  ASSUME NEW s, NEW first, NEW rest, NEW k \in Nat, NEW m, Sifted(s, first, rest, k, m),
         NEW t, t.learnt = m.learnt, m.clear \subseteq t.clear, Var(rest[k + 1]) \in t.clear
  PROVE  Sifted(s, first, rest, k + 1, t)
<1>1. \A j \in 1 .. k + 1 : j \in 1 .. k \/ j = k + 1
  OBVIOUS
<1>2. \A j \in 1 .. k : j \in 1 .. k + 1
  OBVIOUS
<1>3. /\ m.learnt \in Seq(LitsOf(s)) /\ Len(m.learnt) >= 1 /\ m.learnt[1] = first
      /\ \A i \in 2 .. Len(m.learnt) : \E j \in 1 .. k : m.learnt[i] = rest[j]
      /\ \A i, j \in 2 .. Len(m.learnt) : Var(m.learnt[i]) = Var(m.learnt[j]) => i = j
      /\ \A j \in 1 .. k : Var(rest[j]) \in m.clear \/ \E i \in 2 .. Len(m.learnt) : m.learnt[i] = rest[j]
  BY DEF Sifted
<1>4. \A i \in 2 .. Len(m.learnt) : \E j \in 1 .. k + 1 : m.learnt[i] = rest[j]
  BY <1>2, <1>3
<1>5. \A j \in 1 .. k + 1 : Var(rest[j]) \in t.clear \/ \E i \in 2 .. Len(m.learnt) : m.learnt[i] = rest[j]
  BY <1>1, <1>3
<1>6. QED
  BY <1>3, <1>4, <1>5 DEF Sifted

\* One literal of the clause.
LEMMA ShortenKeeps ==
  ASSUME NEW s, Coherent(s), NEW V, NEW first, NEW rest \in Seq(LitsOf(s)), Differs(rest),
         NEW k \in Nat, k < Len(rest), NEW m, Weeded(s, V, m), Sifted(s, first, rest, k, m),
         NEW levels, NEW t, t = Shorten(s, m, rest[k + 1], levels)
  PROVE  Weeded(s, V, t) /\ Sifted(s, first, rest, k + 1, t)
<1> DEFINE p == rest[k + 1]
           x == Var(p)
           l == Append(m.learnt, p)
           one == <<p>>
           m1 == [m EXCEPT !.stack = one]
           tried == Removable(s, m1, levels)
<1>1. p \in LitsOf(s) /\ x \in Vars(s)
  <2>1. Len(rest) \in Nat /\ k + 1 \in 1 .. Len(rest)
    OBVIOUS
  <2>2. p \in LitsOf(s)
    BY <2>1
  <2>3. QED
    BY <2>2 DEF LitsOf
<1>2. /\ IsWeed(m) /\ m.ok /\ m.clear \subseteq Vars(s) /\ m.seen \subseteq Vars(s) /\ m.seen \subseteq V \cup m.clear
      /\ \A v \in m.clear : s.reason[v] # NoClause /\ Caused(s, V \cup m.clear, v)
  BY DEF Weeded
<1>3. ASSUME t = [m EXCEPT !.learnt = l] PROVE Weeded(s, V, t) /\ Sifted(s, first, rest, k + 1, t)
  <2> HIDE DEF l
  <2>1. IsWeed(t) /\ t.seen = m.seen /\ t.stack = m.stack /\ t.clear = m.clear /\ t.ok = m.ok /\ t.learnt = l
    BY <1>2, <1>3 DEF IsWeed
  <2>2. Weeded(s, V, t)
    BY <1>2, <2>1 DEF Weeded
  <2>3. Sifted(s, first, rest, k + 1, t)
    BY <2>1, SiftedKeeps DEF l
  <2>4. QED
    BY <2>2, <2>3
<1>4. CASE s.reason[x] = NoClause
  <2>1. t = [m EXCEPT !.learnt = l]
    BY <1>4 DEF Shorten
  <2>2. QED
    BY <1>3, <2>1
<1>5. CASE s.reason[x] # NoClause
  <2>1. t = KeepOrClear(m, tried, p)
    BY <1>5 DEF Shorten
  <2>2. IsWeed(m1) /\ m1.seen = m.seen /\ m1.stack = one /\ m1.clear = m.clear /\ m1.ok = m.ok /\ m1.learnt = m.learnt
    <3> DEFINE y == m1
    <3>1. y = [m EXCEPT !.stack = one]
      OBVIOUS
    <3> HIDE DEF y, one
    <3>2. IsWeed(y) /\ y.seen = m.seen /\ y.stack = one /\ y.clear = m.clear /\ y.ok = m.ok /\ y.learnt = m.learnt
      BY <1>2, <3>1 DEF IsWeed
    <3>3. QED
      BY <3>2 DEF y
  <2>3. one \in Seq(LitsOf(s)) /\ Len(one) = 1 /\ DOMAIN one = {1} /\ one[1] = p
    <3> HIDE DEF p
    <3>1. QED
      BY <1>1
  <2>4. tried = Removable(s, m1, levels)
    OBVIOUS
  <2> HIDE DEF one, m1, tried
  <2>5. OnStack(m1, x)
    BY <2>2, <2>3 DEF OnStack
  <2>6. Tries(s, V, m1, x, Nothing)
    <3>1. \A v \in m1.clear \cup {x} :
            s.reason[v] # NoClause /\ (v \in Nothing \/ OnStack(m1, v) \/ Caused(s, V \cup m1.clear, v))
      BY <1>2, <1>5, <2>2, <2>5
    <3>2. \A i \in DOMAIN m1.stack : s.reason[Var(m1.stack[i])] # NoClause
      BY <1>5, <2>2, <2>3
    <3>3. QED
      BY <1>2, <2>2, <2>3, <3>1, <3>2 DEF Tries
  <2>7. /\ IsWeed(tried) /\ tried.learnt = m1.learnt
        /\ tried.ok => Tries(s, V, tried, x, Nothing) /\ tried.stack = <<>> /\ Widens(m1, tried)
    BY <2>2, <2>3, <2>4, <2>6, RemovableIs
  <2>8. CASE tried.ok
    <3> DEFINE C == tried.clear \cup {x}
    <3>1. t = [tried EXCEPT !.clear = C]
      BY <2>1, <2>8 DEF KeepOrClear
    <3> HIDE DEF C
    <3>2. IsWeed(t) /\ t.seen = tried.seen /\ t.clear = C /\ t.ok = tried.ok /\ t.learnt = tried.learnt
      BY <2>7, <3>1 DEF IsWeed
    <3>3. Tries(s, V, tried, x, Nothing) /\ tried.stack = <<>>
      BY <2>7, <2>8
    <3>4. \A v : ~OnStack(tried, v)
      BY <3>3 DEF OnStack
    <3>5. \A v \in C : s.reason[v] # NoClause /\ Caused(s, V \cup C, v)
      <4>1. \A v \in C : s.reason[v] # NoClause /\ Caused(s, V \cup tried.clear, v)
        BY <3>3, <3>4 DEF Tries, Nothing, C
      <4>2. QED
        BY <4>1 DEF Caused, C
    <3>6. C \subseteq Vars(s) /\ tried.seen \subseteq Vars(s) /\ tried.seen \subseteq V \cup C
      BY <1>1, <3>3 DEF Tries, C
    <3>7. Weeded(s, V, t)
      BY <2>8, <3>2, <3>5, <3>6 DEF Weeded
    <3>8. t.learnt = m.learnt /\ m.clear \subseteq t.clear /\ Var(rest[k + 1]) \in t.clear
      BY <2>2, <2>7, <2>8, <3>2 DEF Widens, C
    <3>9. Sifted(s, first, rest, k + 1, t)
      BY <3>8, SiftedDrops
    <3>10. QED
      BY <3>7, <3>9
  <2>9. CASE ~tried.ok
    <3>1. t = [m EXCEPT !.learnt = l]
      BY <2>1, <2>9 DEF KeepOrClear
    <3>2. QED
      BY <1>3, <3>1
  <2>10. QED
    BY <2>8, <2>9
<1>6. QED
  BY <1>4, <1>5

\* The whole clause.
LEMMA MinimizedIs ==
  ASSUME NEW s, Coherent(s), NEW a, Asserted(s, a), NEW rest, rest = AllButOne(a.learnt),
         NEW m, m = Minimized(s, a, rest)
  PROVE  Weeded(s, a.seen, m) /\ Sifted(s, a.learnt[1], rest, Len(rest), m) /\ Len(rest) \in Nat
<1> DEFINE V == a.seen
           first == a.learnt[1]
           n == Len(rest)
           f == Shortenings(s, a, rest)
           levels == MinLevel(s, rest)
           P == {k \in 0 .. n : Weeded(s, V, f[k]) /\ Sifted(s, first, rest, k, f[k])}
<1>1. /\ rest \in Seq(LitsOf(s)) /\ Differs(rest) /\ n \in Nat /\ V \subseteq Vars(s) /\ first \in LitsOf(s)
  <2>1. Lowered(s, rest, a.bt, V) /\ a.learnt \in Seq(LitsOf(s)) /\ Len(a.learnt) >= 1 /\ V \subseteq Vars(s)
    BY DEF Asserted
  <2>2. rest \in Seq(LitsOf(s)) /\ Differs(rest)
    BY <2>1 DEF Lowered, Differs
  <2>3. QED
    BY <2>1, <2>2
<1>2. f[0] = Unshortened(a) /\ \A k \in 1 .. n : f[k] = Shorten(s, f[k - 1], rest[k], levels)
  BY <1>1, ShortenSteps
<1> HIDE DEF f, levels
<1>3. 0 \in P
  <2> DEFINE y == Unshortened(a)
             one == <<first>>
  <2>1. IsWeed(y) /\ y.ok = TRUE /\ y.clear = {} /\ y.seen = V /\ y.learnt = one
    BY DEF Unshortened, IsWeed
  <2>2. one \in Seq(LitsOf(s)) /\ Len(one) = 1 /\ one[1] = first
    <3> HIDE DEF first
    <3>1. QED
      BY <1>1
  <2> HIDE DEF y, one
  <2>3. Weeded(s, V, y)
    BY <1>1, <2>1 DEF Weeded
  <2>4. Sifted(s, first, rest, 0, y)
    BY <2>1, <2>2 DEF Sifted
  <2>5. QED
    BY <1>1, <1>2, <2>3, <2>4 DEF y
<1>4. ASSUME NEW k \in Nat, k \in P /\ k < n PROVE k + 1 \in P
  <2> DEFINE x == f[k]
             t1 == f[k + 1]
  <2>1. k + 1 \in 1 .. n /\ (k + 1) - 1 = k /\ k + 1 \in 0 .. n
    BY <1>1, <1>4
  <2>2. t1 = Shorten(s, x, rest[k + 1], levels)
    BY <1>2, <2>1
  <2>3. Weeded(s, V, x) /\ Sifted(s, first, rest, k, x) /\ k < Len(rest)
    BY <1>4
  <2> HIDE DEF x, t1, V, first
  <2>4. Weeded(s, V, t1) /\ Sifted(s, first, rest, k + 1, t1)
    BY <1>1, <2>2, <2>3, ShortenKeeps
  <2>5. QED
    BY <2>1, <2>4 DEF t1, V, first
<1>5. n \in P
  <2> HIDE DEF P
  <2>1. \A k \in 0 .. n : k \in P
    BY <1>1, <1>3, <1>4, UpTo
  <2>2. QED
    BY <1>1, <2>1
<1>6. QED
  BY <1>1, <1>5 DEF Minimized, f

\* The clause learnt: false, its first literal of the last level, bt the highest
\* level of the others; above the root one of them is of that level.
Asserting(s, l, bt) ==
    /\ l \in Seq(LitsOf(s)) /\ Len(l) >= 1 /\ Differs(l) /\ \A i \in DOMAIN l : IsFalse(s, l[i])
    /\ s.level[Var(l[1])] = DecisionLevel(s) /\ \A i \in 2 .. Len(l) : s.level[Var(l[i])] \in 1 .. bt
    /\ bt \in Nat /\ bt < DecisionLevel(s)
    /\ bt > s.rootLevel => \E i \in 2 .. Len(l) : s.level[Var(l[i])] = bt

\* Of the literals of the level bt the earliest on the trail is not implied by
\* others, so that it is kept.
LEMMA EarliestKept ==
  ASSUME NEW s, Coherent(s), NEW V, V \subseteq Vars(s), \A v \in V : s.assigns[v] # Undef,
         NEW m, Weeded(s, V, m), NEW bt \in Nat, bt > s.rootLevel, NEW w \in V, s.level[w] = bt
  PROVE  \E v \in V \ m.clear : s.level[v] = bt
<1> DEFINE Z == {v \in V \cup m.clear : s.level[v] = bt}
           T == {s.trailPos[v] + 1 : v \in Z}
           n == NAssigns(s)
<1>1. n \in Nat /\ s.rootLevel \in Nat /\ s.reason \in [Vars(s) -> Nat]
  BY Types
<1>2. \A v \in V \cup m.clear : v \in Vars(s) /\ s.assigns[v] # Undef /\ s.trailPos[v] \in 0 .. n - 1
  <2>1. ASSUME NEW v \in m.clear PROVE v \in Vars(s) /\ s.assigns[v] # Undef
    <3>1. v \in Vars(s) /\ s.reason[v] # NoClause
      BY DEF Weeded
    <3>2. s.reason[v] \in DOMAIN s.lits /\ Implies(s, s.lits[s.reason[v]], v)
      BY <3>1, ReasonIs
    <3> DEFINE q == s.lits[s.reason[v]][1]
    <3>3. q \in LitsOf(s) /\ Var(q) = v /\ Value(s, q) = True
      BY <3>2, LitsOfClause DEF Implies
    <3> HIDE DEF q
    <3>4. Value(s, q) # Undef
      BY <3>3 DEF True, Undef
    <3>5. QED
      BY <3>1, <3>3, <3>4, OnTrail
  <2>2. \A v \in Vars(s) : s.assigns[v] # Undef => s.trailPos[v] \in 0 .. n - 1
    BY DEF Coherent, Trailed
  <2>3. QED
    BY <2>1, <2>2
<1>3. w \in Z
  OBVIOUS
<1>4. PICK v \in Z : \A y \in Z : s.trailPos[v] <= s.trailPos[y]
  <2>1. T \in SUBSET (1 .. n) /\ T # {}
    BY <1>1, <1>2, <1>3
  <2>2. Min(T) \in T /\ \A y \in T : Min(T) <= y
    <3> HIDE DEF T, n
    <3>1. QED
      BY <1>1, <2>1, HasExtremes
  <2>3. PICK v \in Z : Min(T) = s.trailPos[v] + 1
    BY <2>2
  <2>4. ASSUME NEW y \in Z PROVE s.trailPos[v] <= s.trailPos[y]
    <3>1. s.trailPos[y] + 1 \in T
      BY <2>4
    <3>2. s.trailPos[v] + 1 <= s.trailPos[y] + 1
      BY <2>2, <2>3, <3>1
    <3>3. s.trailPos[v] \in Int /\ s.trailPos[y] \in Int
      BY <1>1, <1>2
    <3>4. QED
      BY <3>2, <3>3
  <2>5. QED
    BY <2>4
<1>5. v \notin m.clear
  <2>1. SUFFICES ASSUME v \in m.clear PROVE FALSE
    OBVIOUS
  <2>2. s.reason[v] # NoClause /\ Caused(s, V \cup m.clear, v) /\ v \in Vars(s) /\ s.level[v] = bt
    BY <1>2, <2>1 DEF Weeded
  <2> DEFINE ls == s.lits[s.reason[v]]
  <2>3. s.reason[v] \in DOMAIN s.lits /\ Implies(s, ls, v)
    BY <2>2, ReasonIs
  <2>4. PICK i \in 2 .. Len(ls) : s.level[Var(ls[i])] = bt
    BY <2>2, <2>3 DEF Implies
  <2>5. At(s, ls[i]) < s.trailPos[v]
    BY <2>3 DEF Implies
  <2>6. ls[i] \in Causes(s, v)
    <3>1. ls \in Seq(LitsOf(s)) /\ Len(ls) >= 1
      BY <2>3, LitsOfClause
    <3>2. Range(AllButOne(ls)) = {ls[k] : k \in 2 .. Len(ls)}
      <4> HIDE DEF ls
      <4>1. QED
        BY <3>1, Rest
    <3>3. QED
      BY <3>2 DEF Causes
  <2>7. bt # 0
    BY <1>1
  <2> HIDE DEF ls
  <2>8. Var(ls[i]) \in V \cup m.clear
    BY <2>2, <2>4, <2>6, <2>7 DEF Caused
  <2>9. Var(ls[i]) \in Z
    BY <2>4, <2>8
  <2>10. s.trailPos[v] <= s.trailPos[Var(ls[i])] /\ s.trailPos[v] \in Int /\ s.trailPos[Var(ls[i])] \in Int
    BY <1>1, <1>2, <1>4, <2>9
  <2>11. QED
    BY <2>5, <2>10 DEF At
<1>6. QED
  BY <1>4, <1>5

\* The minimised clause is still asserting.
LEMMA MinimizedAsserts ==
  ASSUME NEW s, Coherent(s), DecisionLevel(s) > s.rootLevel, NEW a, Asserted(s, a),
         NEW rest, rest = AllButOne(a.learnt), NEW m, m = Minimized(s, a, rest)
  PROVE  Asserting(s, m.learnt, a.bt) /\ Weeded(s, a.seen, m)
<1> DEFINE V == a.seen
           first == a.learnt[1]
           l == m.learnt
           n == Len(rest)
           bt == a.bt
<1>1. Weeded(s, V, m) /\ Sifted(s, first, rest, n, m) /\ n \in Nat
  BY MinimizedIs
<1>2. /\ IsFalse(s, first) /\ s.level[Var(first)] = DecisionLevel(s) /\ V \subseteq Vars(s)
      /\ \A v \in V : s.assigns[v] # Undef /\ s.level[v] # DecisionLevel(s)
      /\ Lowered(s, rest, bt, V)
  BY DEF Asserted
<1> HIDE DEF V, first, bt
<1>3. /\ rest \in Seq(LitsOf(s)) /\ DOMAIN rest = 1 .. n /\ bt \in Nat /\ bt < DecisionLevel(s)
      /\ \A i \in 1 .. n : Var(rest[i]) \in V /\ IsFalse(s, rest[i]) /\ s.level[Var(rest[i])] \in 1 .. bt
      /\ \A v \in V : s.level[v] # DecisionLevel(s) => \E i \in 1 .. n : Var(rest[i]) = v
      /\ bt > 0 => \E i \in 1 .. n : s.level[Var(rest[i])] = bt
  BY <1>1, <1>2 DEF Lowered
<1>4. /\ l \in Seq(LitsOf(s)) /\ Len(l) \in Nat /\ DOMAIN l = 1 .. Len(l) /\ Len(l) >= 1 /\ l[1] = first
      /\ \A i \in 2 .. Len(l) : \E j \in 1 .. n : l[i] = rest[j]
      /\ \A i, j \in 2 .. Len(l) : Var(l[i]) = Var(l[j]) => i = j
      /\ \A j \in 1 .. n : Var(rest[j]) \in m.clear \/ \E i \in 2 .. Len(l) : l[i] = rest[j]
  BY <1>1 DEF Sifted
<1>5. DecisionLevel(s) \in Nat /\ s.rootLevel \in Nat
  BY Types
<1> HIDE DEF l, n
<1>6. \A i \in 2 .. Len(l) : IsFalse(s, l[i]) /\ s.level[Var(l[i])] \in 1 .. bt
  BY <1>3, <1>4
<1>7. \A i \in DOMAIN l : i = 1 \/ i \in 2 .. Len(l)
  BY <1>4
<1>8. \A i \in DOMAIN l : IsFalse(s, l[i])
  BY <1>2, <1>4, <1>6, <1>7
<1>9. \A i \in 2 .. Len(l) : Var(l[i]) # Var(l[1])
  <2>1. \A i \in 2 .. Len(l) : s.level[Var(l[i])] # s.level[Var(l[1])]
    BY <1>2, <1>3, <1>4, <1>5, <1>6
  <2>2. QED
    BY <2>1
<1>10. Differs(l)
  BY <1>4, <1>7, <1>9 DEF Differs
<1>11. ASSUME bt > s.rootLevel PROVE \E i \in 2 .. Len(l) : s.level[Var(l[i])] = bt
  <2>1. PICK j \in 1 .. n : s.level[Var(rest[j])] = bt
    BY <1>3, <1>5, <1>11
  <2>2. PICK v \in V \ m.clear : s.level[v] = bt
    <3> DEFINE w == Var(rest[j])
    <3>1. w \in V /\ s.level[w] = bt /\ \A u \in V : s.assigns[u] # Undef
      BY <1>2, <1>3, <2>1
    <3> HIDE DEF w
    <3>2. QED
      BY <1>1, <1>2, <1>3, <1>11, <3>1, EarliestKept
  <2>3. PICK k \in 1 .. n : Var(rest[k]) = v
    BY <1>2, <1>3, <2>2
  <2>4. PICK i \in 2 .. Len(l) : l[i] = rest[k]
    BY <1>4, <2>2, <2>3
  <2>5. QED
    BY <2>2, <2>3, <2>4
<1>12. Asserting(s, l, bt)
  BY <1>2, <1>3, <1>4, <1>6, <1>8, <1>10, <1>11 DEF Asserting
<1>13. QED
  BY <1>1, <1>12 DEF l, bt, V

\* Members of a sequence at some places.
LEMMA PickedIs ==
  ASSUME NEW T, NEW ls \in Seq(T), NEW ks \in SUBSET DOMAIN ls, NEW g, g = Picked(ls, ks)
  PROVE  g \in Seq(T) /\ Len(g) \in Nat /\ DOMAIN g = 1 .. Len(g) /\ Range(g) = {ls[k] : k \in ks}
<1> DEFINE f == Sorted(ks)
           n == Cardinality(ks)
<1>1. DOMAIN ls = 1 .. Len(ls) /\ Len(ls) \in Nat
  OBVIOUS
<1>2. ks \in SUBSET Nat /\ IsFiniteSet(ks)
  <2> DEFINE m == Len(ls)
  <2>1. ks \in SUBSET (1 .. m) /\ m \in Nat
    BY <1>1
  <2> HIDE DEF m
  <2>2. IsFiniteSet(1 .. m)
    BY <2>1, FS_Interval
  <2>3. IsFiniteSet(ks)
    BY <2>1, <2>2, FS_Subset
  <2>4. QED
    BY <2>1, <2>3
<1>3. f \in Seq(ks) /\ Len(f) = n /\ n \in Nat /\ DOMAIN f = 1 .. n /\ Range(f) = ks
  <2>1. f = Sorted(ks)
    OBVIOUS
  <2> HIDE DEF f
  <2>2. QED
    BY <1>2, <2>1, SortedIs
<1>4. g = [i \in 1 .. n |-> ls[f[i]]]
  BY DEF Picked
<1> HIDE DEF f, n
<1>5. \A i \in 1 .. n : f[i] \in ks /\ ls[f[i]] \in T
  BY <1>1, <1>3
<1>6. g \in [1 .. n -> T] /\ DOMAIN g = 1 .. n /\ \A i \in 1 .. n : g[i] = ls[f[i]]
  BY <1>4, <1>5
<1> HIDE <1>4
<1>7. g \in Seq(T) /\ Len(g) = n
  BY <1>3, <1>6
<1>8. ASSUME NEW k \in ks PROVE ls[k] \in Range(g)
  <2>1. PICK i \in 1 .. n : f[i] = k
    BY <1>3 DEF Range
  <2>2. g[i] = ls[k]
    BY <1>6, <2>1
  <2>3. QED
    BY <1>6, <2>2 DEF Range
<1>9. ASSUME NEW y \in Range(g) PROVE y \in {ls[k] : k \in ks}
  <2>1. PICK i \in 1 .. n : y = g[i]
    BY <1>6 DEF Range
  <2>2. QED
    BY <1>5, <1>6, <2>1
<1>10. QED
  BY <1>3, <1>6, <1>7, <1>8, <1>9

\* A chain may be prolonged by units.
LEMMA ResolveUnitsChains ==
  ASSUME NEW s, Coherent(s), NEW ch, NEW n \in Nat, Chains(ch, n), NEW ls \in Seq(LitsOf(s))
  PROVE  Chains(ResolveUnits(s, ch, ls), n)
<1> DEFINE B == [i \in DOMAIN ls |-> Var(ls[i])]
           A == ch.vars
           g == A \o B
<1>1. A \in Seq(Nat) /\ Len(A) \in Nat /\ Len(A) >= n
  BY DEF Chains
<1>2. B \in Seq(Nat)
  <2>1. DOMAIN ls = 1 .. Len(ls) /\ Len(ls) \in Nat /\ \A i \in DOMAIN ls : Var(ls[i]) \in Nat
    <3>1. \A p \in LitsOf(s) : Var(p) \in Nat
      BY Types DEF LitsOf
    <3>2. \A i \in DOMAIN ls : ls[i] \in LitsOf(s)
      OBVIOUS
    <3> HIDE DEF A, B
    <3>3. QED
      BY <3>1, <3>2
  <2>2. B \in [1 .. Len(ls) -> Nat]
    BY <2>1
  <2> HIDE DEF B
  <2>3. QED
    BY <2>1, <2>2
<1>3. ResolveUnits(s, ch, ls).vars = g
  BY DEF ResolveUnits
<1> HIDE DEF A, B
<1>4. g \in Seq(Nat) /\ Len(g) = Len(A) + Len(B) /\ Len(B) \in Nat
  BY <1>1, <1>2
<1> HIDE DEF g
<1>5. QED
  BY <1>1, <1>3, <1>4 DEF Chains

\* The literals that were removed are resolved away.
LEMMA AwayChains ==
  ASSUME NEW s, Coherent(s), NEW ch, Chains(ch, 1), NEW clear, \A v \in clear : v \in Vars(s) /\ s.reason[v] # NoClause,
         NEW t, t = WaysAway(s, ch, clear)[NAssigns(s)]
  PROVE  Chains(t, 1)
<1> DEFINE n == NAssigns(s)
           f == WaysAway(s, ch, clear)
           P == {k \in 0 .. n : Chains(f[k], 1)}
<1>1. n \in Nat
  BY Types
<1>2. f[0] = ch /\ \A k \in 1 .. n : f[k] = ResolveAway(s, f[k - 1], Var(FromLast(s, k)), clear)
  BY <1>1, AwaySteps
<1> HIDE DEF f
<1>3. 0 \in P
  BY <1>1, <1>2
<1>4. ASSUME NEW k \in Nat, k \in P /\ k < n PROVE k + 1 \in P
  <2> DEFINE x == f[k]
             t1 == f[k + 1]
             v == Var(FromLast(s, k + 1))
             cs == s.lits[s.reason[v]]
             ls == AllButOne(cs)
             qs == AtLevel0(s, ls)
  <2>1. k + 1 \in 1 .. n /\ (k + 1) - 1 = k /\ k + 1 \in 0 .. n
    BY <1>1, <1>4
  <2>2. t1 = ResolveAway(s, x, v, clear)
    BY <1>2, <2>1
  <2>3. Chains(x, 1)
    BY <1>4
  <2> HIDE DEF x, t1, v
  <2>4. CASE v \notin clear
    <3>1. t1 = x
      BY <2>2, <2>4 DEF ResolveAway
    <3>2. QED
      BY <2>1, <2>3, <3>1 DEF t1
  <2>5. CASE v \in clear
    <3> DEFINE c == s.reason[v]
               y == Resolve(x, c, v)
    <3>1. t1 = ResolveUnits(s, y, qs)
      BY <2>2, <2>5 DEF ResolveAway, ResolveWith
    <3>2. v \in Vars(s) /\ s.reason[v] # NoClause /\ v \in Nat
      BY <2>5, Types
    <3>3. Chains(y, 1)
      <4> HIDE DEF c
      <4>1. QED
        BY <2>3, <3>2, ResolveChains
    <3>4. ls \in Seq(LitsOf(s))
      <4>1. c \in DOMAIN s.lits
        BY <3>2, ReasonIs
      <4>2. cs \in Seq(LitsOf(s)) /\ Len(cs) >= 1
        BY <4>1, LitsOfClause
      <4> HIDE DEF cs
      <4>3. QED
        BY <4>2, Rest
    <3> HIDE DEF y, c, cs, ls
    <3>5. qs \in Seq(LitsOf(s))
      <4> DEFINE ks == {i \in DOMAIN ls : s.level[Var(ls[i])] = 0}
      <4>1. qs = Picked(ls, ks) /\ ks \in SUBSET DOMAIN ls
        BY DEF AtLevel0
      <4> HIDE DEF ks, qs
      <4>2. QED
        BY <3>4, <4>1, PickedIs
    <3> HIDE DEF qs
    <3>6. Chains(t1, 1)
      BY <3>1, <3>3, <3>5, ResolveUnitsChains
    <3>7. QED
      BY <2>1, <3>6 DEF t1
  <2>6. QED
    BY <2>4, <2>5
<1>5. n \in P
  <2> HIDE DEF P
  <2>1. \A k \in 0 .. n : k \in P
    BY <1>1, <1>3, <1>4, UpTo
  <2>2. QED
    BY <1>1, <2>1
<1>6. QED
  BY <1>5 DEF f

\* What analyze returns.
LEMMA Analyzes ==
  ASSUME NEW s, Coherent(s), DecisionLevel(s) > s.rootLevel, NEW confl, InConflict(s, confl),
         NEW r, r = Analyze(s, confl)
  PROVE  Logged(s, r.s) /\ LastId(r.s) = LastId(s) + 1 /\ Asserting(s, r.learnt, r.bt)
<1> DEFINE a1 == MeetAll(s, Starting(s, confl), s.lits[confl])
           a2 == ResolvedBack(s, a1)
           a == UipOf(s, a2)
           rest == AllButOne(a.learnt)
           m == Minimized(s, a, rest)
           ch == WaysAway(s, a.chain, m.clear)[NAssigns(s)]
           t == EndChain(s, ch)
<1>1. r = [s |-> t, learnt |-> m.learnt, bt |-> a.bt]
  BY DEF Analyze, Minimize, Learnt, ToFirstUip, Starting
<1>2. a1 = MeetAll(s, Starting(s, confl), s.lits[confl]) /\ a2 = ResolvedBack(s, a1) /\ a = UipOf(s, a2)
  OBVIOUS
<1>3. rest = AllButOne(a.learnt) /\ m = Minimized(s, a, rest) /\ t = EndChain(s, ch)
  OBVIOUS
<1>4. ch = WaysAway(s, a.chain, m.clear)[NAssigns(s)]
  OBVIOUS
<1> HIDE DEF a1, a2, a, rest, m, ch, t
<1>5. Marked(s, a1) /\ a1.open >= 2 /\ a1.open \in Nat /\ a1.at = NAssigns(s)
  BY <1>2, ConflictMarks
<1>6. Marked(s, a2) /\ a2.open = 1 /\ Chains(a2.chain, 1)
  BY <1>2, <1>5, ResolvedBackMarks
<1>7. Asserted(s, a)
  BY <1>2, <1>6, UipAsserts
<1>8. Asserting(s, m.learnt, a.bt) /\ Weeded(s, a.seen, m)
  BY <1>3, <1>7, MinimizedAsserts
<1>9. Chains(ch, 1)
  <2> DEFINE C == m.clear
             b == a.chain
  <2>1. \A v \in C : v \in Vars(s) /\ s.reason[v] # NoClause
    BY <1>8 DEF Weeded
  <2>2. Chains(b, 1) /\ ch = WaysAway(s, b, C)[NAssigns(s)]
    BY <1>4, <1>7 DEF Asserted
  <2> HIDE DEF C, b
  <2>3. QED
    BY <2>1, <2>2, AwayChains
<1>10. ch.vars # <<>>
  BY <1>9 DEF Chains
<1>11. Logged(s, t) /\ LastId(t) = LastId(s) + 1
  BY <1>3, <1>10, EndChainLogs
<1>12. r.s = t /\ r.learnt = m.learnt /\ r.bt = a.bt
  BY <1>1
<1>13. QED
  BY <1>8, <1>11, <1>12

\* A clause that asserts its first literal: the others are false, of levels
\* above 0, and one of them of the last.
Ripe(s, l) ==
    /\ l \in Seq(LitsOf(s)) /\ Len(l) >= 1 /\ Differs(l) /\ Value(s, l[1]) = Undef
    /\ \A i \in 2 .. Len(l) : IsFalse(s, l[i]) /\ s.level[Var(l[i])] \in 1 .. DecisionLevel(s)
    /\ DecisionLevel(s) >= s.rootLevel
    /\ DecisionLevel(s) > s.rootLevel => \E i \in 2 .. Len(l) : s.level[Var(l[i])] = DecisionLevel(s)

\* The chain of a learnt clause disturbs nothing it speaks of.
LEMMA AssertingKeeps ==
  ASSUME NEW s, NEW t, SameTrail(s, t), NEW l, NEW bt, Asserting(s, l, bt)
  PROVE  Asserting(t, l, bt)
<1>1. /\ LitsOf(t) = LitsOf(s) /\ DecisionLevel(t) = DecisionLevel(s) /\ \A p : IsFalse(t, p) <=> IsFalse(s, p)
      /\ t.level = s.level /\ t.rootLevel = s.rootLevel
  BY SameTrailIs DEF SameTrail
<1>2. QED
  BY <1>1 DEF Asserting

\* The literals below what is undone keep their value.
LEMMA ReturnsValues ==
  ASSUME NEW s, Coherent(s), NEW n \in 0 .. DecisionLevel(s) - 1, NEW t, Returns(s, t, n),
         NEW h, h = s.trailLim[n + 1]
  PROVE  /\ LitsOf(t) = LitsOf(s) /\ DecisionLevel(t) = n
         /\ \A q \in LitsOf(s) : Value(t, q) # Undef => At(s, q) < h
         /\ \A q \in LitsOf(s) : Value(s, q) # Undef /\ At(s, q) < h => Value(t, q) = Value(s, q)
BY ReturnsIs

\* At the level it goes back to, the clause asserts its first literal.
LEMMA ReturnRipens ==
  ASSUME NEW s, Coherent(s), DecisionLevel(s) > s.rootLevel, NEW l, NEW bt, Asserting(s, l, bt),
         NEW n, n = Max({bt, s.rootLevel})
  PROVE  /\ n \in Nat /\ n >= s.rootLevel /\ n < DecisionLevel(s)
         /\ \A t : Returns(s, t, n) => Ripe(t, l)
<1>1. bt \in Nat /\ s.rootLevel \in Nat /\ DecisionLevel(s) \in Nat /\ bt < DecisionLevel(s)
  BY Types DEF Asserting
<1>2. Max({bt, s.rootLevel}) = IF bt < s.rootLevel THEN s.rootLevel ELSE bt
  <2>1. bt \in Int /\ s.rootLevel \in Int
    BY <1>1
  <2>2. QED
    BY <2>1, PairExtremes
<1>3. n \in Nat /\ n >= s.rootLevel /\ n < DecisionLevel(s) /\ bt <= n /\ (n > s.rootLevel => n = bt)
  BY <1>1, <1>2
<1>4. ASSUME NEW t, Returns(s, t, n) PROVE Ripe(t, l)
  <2> DEFINE k == n + 1
             h == s.trailLim[k]
  <2>1. n \in 0 .. DecisionLevel(s) - 1 /\ k \in 1 .. DecisionLevel(s)
    BY <1>1, <1>3
  <2>1a. k = n + 1
    OBVIOUS
  <2>1b. h = s.trailLim[n + 1]
    OBVIOUS
  <2> HIDE DEF k, h
  <2>2. /\ LitsOf(t) = LitsOf(s) /\ DecisionLevel(t) = n
        /\ \A q \in LitsOf(s) : Value(t, q) # Undef => At(s, q) < h
        /\ \A q \in LitsOf(s) : Value(s, q) # Undef /\ At(s, q) < h => Value(t, q) = Value(s, q)
    <3>1. Returns(s, t, n)
      BY <1>4
    <3>2. LitsOf(t) = LitsOf(s) /\ DecisionLevel(t) = n
      BY <2>1, <3>1, ReturnsValues
    <3>3. \A q \in LitsOf(s) : Value(t, q) # Undef => At(s, q) < h
      BY <2>1, <2>1b, <3>1, ReturnsValues
    <3>4. \A q \in LitsOf(s) : Value(s, q) # Undef /\ At(s, q) < h => Value(t, q) = Value(s, q)
      BY <2>1, <2>1b, <3>1, ReturnsValues
    <3>5. QED
      BY <3>2, <3>3, <3>4
  <2>3. t.level = s.level /\ t.rootLevel = s.rootLevel
    BY <1>4 DEF Returns
  <2>4. /\ l \in Seq(LitsOf(s)) /\ Len(l) >= 1 /\ Differs(l) /\ \A i \in DOMAIN l : IsFalse(s, l[i])
        /\ s.level[Var(l[1])] = DecisionLevel(s) /\ \A i \in 2 .. Len(l) : s.level[Var(l[i])] \in 1 .. bt
        /\ bt > s.rootLevel => \E i \in 2 .. Len(l) : s.level[Var(l[i])] = bt
    BY DEF Asserting
  <2>5. Len(l) \in Nat /\ DOMAIN l = 1 .. Len(l) /\ \A i \in 1 .. Len(l) : l[i] \in LitsOf(s)
    BY <2>4
  <2>6. \A p \in LitsOf(s) : IsFalse(s, p) => Value(s, p) # Undef /\ s.assigns[Var(p)] # Undef
    BY Types, Values DEF IsFalse
  <2>7. Value(t, l[1]) = Undef
    <3> DEFINE p == l[1]
    <3>1. p \in LitsOf(s) /\ IsFalse(s, p) /\ s.level[Var(p)] = DecisionLevel(s)
      BY <2>4, <2>5
    <3> HIDE DEF p
    <3>2. Var(p) \in Vars(s) /\ s.assigns[Var(p)] # Undef
      BY <2>6, <3>1, Types
    <3>3. s.level[Var(p)] >= k
      BY <1>1, <2>1, <3>1
    <3>4. s.trailPos[Var(p)] >= h
      BY <2>1, <3>2, <3>3, FromLevel DEF h
    <3>5. h \in Nat
      BY <2>1, Starts DEF h
    <3>6. s.trailPos[Var(p)] \in Int
      BY <3>2, Types
    <3>7. Value(t, p) = Undef
      BY <2>2, <3>1, <3>4, <3>5, <3>6 DEF At
    <3>8. QED
      BY <3>7 DEF p
  <2>8. ASSUME NEW i \in 2 .. Len(l) PROVE IsFalse(t, l[i]) /\ t.level[Var(l[i])] \in 1 .. n
    <3> DEFINE p == l[i]
    <3>1. p \in LitsOf(s) /\ IsFalse(s, p) /\ s.level[Var(p)] \in 1 .. bt
      BY <2>4, <2>5
    <3> HIDE DEF p
    <3>2. Var(p) \in Vars(s) /\ s.assigns[Var(p)] # Undef /\ Value(s, p) # Undef
      BY <2>6, <3>1, Types
    <3>3. s.level[Var(p)] \in 1 .. n /\ s.level[Var(p)] < k /\ s.level[Var(p)] >= 1
      BY <1>1, <1>3, <3>1 DEF k
    <3>4. s.trailPos[Var(p)] < h
      BY <2>1, <3>2, <3>3, BelowLevel DEF h
    <3>5. Value(t, p) = Value(s, p)
      BY <2>2, <3>1, <3>2, <3>4 DEF At
    <3>6. IsFalse(t, p) /\ t.level[Var(p)] \in 1 .. n
      BY <2>3, <3>1, <3>3, <3>5 DEF IsFalse
    <3>7. QED
      BY <3>6 DEF p
  <2>9. n > s.rootLevel => \E i \in 2 .. Len(l) : t.level[Var(l[i])] = n
    BY <1>3, <2>3, <2>4
  <2>10. QED
    BY <1>3, <2>2, <2>3, <2>4, <2>7, <2>8, <2>9 DEF Ripe
<1>5. QED
  BY <1>3, <1>4

\* What Learn leaves, to be propagated.
Resumes(s, t) ==
    /\ Sound(t) /\ Watching(t, t.qhead, {}) /\ t.ok = s.ok
    /\ DecisionLevel(t) >= t.rootLevel /\ LitsOf(t) = LitsOf(s)
Levelling(s, v, n) == [s EXCEPT !.level[v] = n]

\* Only the level is written.
LEMMA LevellingIs ==
  ASSUME NEW s, Shaped(s), NEW v, NEW n, NEW t, t = Levelling(s, v, n)
  PROVE  SameBut(s, t, {"level"}) /\ t.level = [s.level EXCEPT ![v] = n]
BY DEF Levelling, SameBut, Shaped, Fields

\* A learnt unit is assigned at the root and counts as of level 0.
LEMMA UnitResumes ==
  ASSUME NEW s, Sound(s), Watching(s, s.qhead, {}), NEW l, Ripe(s, l), Len(l) = 1, NEW id \in Nat,
         NEW learnt, NEW t, t = SettleUnit(Install(s, l, learnt, id), l)
  PROVE  Resumes(s, t)
<1> DEFINE p == l[1]
           v == Var(p)
           u == Install(s, l, learnt, id)
<1>1. Coherent(s) /\ Listed(s) /\ Unassigned(s) \subseteq s.order
  BY DEF Sound
<1>2. p \in LitsOf(s) /\ Value(s, p) = Undef /\ DecisionLevel(s) >= s.rootLevel
  <2>1. l \in Seq(LitsOf(s)) /\ Len(l) = 1
    BY DEF Ripe
  <2>2. p \in LitsOf(s)
    BY <2>1, ElementOfSeq
  <2>3. QED
    BY <2>2 DEF Ripe
<1>3. p = l[1]
  OBVIOUS
<1>4. DecisionLevel(s) \in Nat /\ s.rootLevel \in Nat /\ NoClause \in Nat /\ v \in Vars(s) /\ s.level \in [Vars(s) -> Int]
  BY <1>1, <1>2, Types DEF NoClause
<1>5. ~(DecisionLevel(s) > s.rootLevel)
  <2>1. 2 .. Len(l) = {}
    OBVIOUS
  <2>2. QED
    BY <2>1 DEF Ripe
<1>6. t = Levelling(u, v, 0)
  BY DEF SettleUnit, Levelling
<1> HIDE DEF p
<1>7. Assigns(s, u, p, NoClause, DecisionLevel(s)) /\ u.watches = s.watches /\ u.order = s.order /\ u.ok = s.ok
  BY <1>1, <1>2, <1>3, UnitAssigns
<1> HIDE DEF u, v
<1>8. Shaped(u) /\ u.level = [s.level EXCEPT ![v] = DecisionLevel(s)]
  BY <1>7 DEF Assigns, v
<1>9. SameBut(u, t, {"level"}) /\ t.level = [u.level EXCEPT ![v] = 0]
  BY <1>6, <1>8, LevellingIs
<1>10. t.level = [s.level EXCEPT ![v] = 0]
  BY <1>4, <1>8, <1>9
<1>11. Assigns(s, t, p, NoClause, 0) /\ t.watches = s.watches /\ t.order = s.order /\ t.ok = s.ok
  <2>1. /\ Shaped(t) /\ t.ok = u.ok /\ t.lits = u.lits /\ t.clauses = u.clauses
        /\ t.learnts = u.learnts /\ t.unitId = u.unitId /\ t.order = u.order /\ t.watches = u.watches
        /\ t.assigns = u.assigns /\ t.trail = u.trail /\ t.trailLim = u.trailLim
        /\ t.reason = u.reason /\ t.trailPos = u.trailPos
        /\ t.rootLevel = u.rootLevel /\ t.qhead = u.qhead /\ t.simpAssigns = u.simpAssigns
        /\ t.log = u.log
    BY <1>9 DEF SameBut, Fields
  <2>2. QED
    <3>1. t.level = [s.level EXCEPT ![Var(p)] = 0]
      BY <1>10 DEF v
    <3>2. LastId(t) = LastId(u)
      BY <2>1 DEF LastId
    <3>3. QED
      BY <1>7, <2>1, <3>1, <3>2, Zenon DEF Assigns
<1>12. Justified(s, p, NoClause, 0)
  BY <1>2, <1>4, <1>5 DEF Justified
<1>13. Stocked(s, p)
  BY <1>1 DEF Stocked
<1>14. /\ Sound(t) /\ LitsOf(t) = LitsOf(s) /\ DecisionLevel(t) = DecisionLevel(s)
       /\ t.rootLevel = s.rootLevel /\ \A late : Watching(s, s.qhead, late) => Watching(t, t.qhead, late)
  BY <1>1, <1>11, <1>12, <1>13, AssignsSound
<1>15. Watching(t, t.qhead, {})
  BY <1>14
<1>16. QED
  BY <1>2, <1>11, <1>14, <1>15 DEF Resumes

\* The second watch of a learnt clause is of its highest level.
LEMMA SecondWatchIs ==
  ASSUME NEW s, s.level \in [Vars(s) -> Int], NEW ls \in Seq(LitsOf(s)), Len(ls) >= 2, NEW d \in Nat,
         \A i \in 2 .. Len(ls) : s.level[Var(ls[i])] \in 1 .. d,
         NEW w, w = SecondWatch(s, ls)
  PROVE  w \in 2 .. Len(ls) /\ \A j \in 2 .. Len(ls) : s.level[Var(ls[j])] <= s.level[Var(ls[w])]
<1> DEFINE lev(i) == s.level[Var(ls[i])]
           T == {k \in 1 .. d : \E i \in 2 .. Len(ls) : lev(i) = k}
           top == Max(T)
           W == {i \in 1 .. Len(ls) : i >= 2 /\ lev(i) = top}
           m == Min(W)
<1>1. Len(ls) \in Nat /\ \A i \in 2 .. Len(ls) : lev(i) \in 1 .. d
  OBVIOUS
<1>2. T \in SUBSET (1 .. d) /\ T # {}
  <2>1. 2 \in 2 .. Len(ls)
    BY <1>1
  <2>2. lev(2) \in T
    BY <1>1, <2>1
  <2>3. QED
    BY <2>2
<1>3. \A i \in 2 .. Len(ls) : lev(i) \in T
  BY <1>1
<1>4. top \in T /\ \A y \in T : y <= top
  <2> HIDE DEF T
  <2>1. QED
    BY <1>2, HasExtremes
<1>5. W \in SUBSET (1 .. Len(ls)) /\ W # {}
  <2>1. PICK i \in 2 .. Len(ls) : lev(i) = top
    BY <1>4
  <2>2. i \in W
    BY <1>1, <2>1
  <2>3. QED
    BY <2>2
<1>6. m \in W /\ \A y \in W : m <= y
  <2> HIDE DEF W
  <2>1. QED
    BY <1>1, <1>5, HasExtremes
<1>7. m \in 2 .. Len(ls) /\ lev(m) = top
  BY <1>1, <1>6
<1>8. \A j \in 2 .. Len(ls) : lev(j) <= lev(m)
  BY <1>3, <1>4, <1>7
<1> HIDE DEF m
<1>9. \A j \in 2 .. m - 1 : lev(j) < lev(m)
  <2>1. ASSUME NEW j \in 2 .. m - 1 PROVE lev(j) < lev(m)
    <3>1. j \in 2 .. Len(ls) /\ j < m
      <4>1. m \in 2 .. Len(ls)
        BY <1>7
      <4>2. QED
        BY <1>1, <4>1
    <3>1a. j \notin W
      <4> HIDE DEF W
      <4>1. m \in Int /\ j \in Int
        BY <1>7
      <4>2. QED
        BY <1>6, <3>1, <4>1
    <3>2. lev(j) # top
      <4>1. j \in 1 .. Len(ls) /\ j >= 2
        BY <1>1, <3>1
      <4> HIDE DEF lev, top
      <4>2. QED
        BY <3>1a, <4>1
    <3>3. lev(j) <= lev(m) /\ lev(j) \in Int /\ lev(m) \in Int
      <4>1. lev(j) \in 1 .. d /\ lev(m) \in 1 .. d /\ lev(j) <= lev(m)
        <5> HIDE DEF lev
        <5>1. QED
          BY <1>1, <1>7, <1>8, <3>1
      <4> HIDE DEF lev
      <4>2. QED
        BY <4>1
    <3>4. QED
      BY <1>7, <3>2, <3>3
  <2>2. QED
    BY <2>1
<1>10. QED
  <2> DEFINE Highest(i) == /\ \A j \in 2 .. Len(ls) : lev(j) <= lev(i)
                           /\ \A j \in 2 .. i - 1 : lev(j) < lev(i)
  <2>1. w = CHOOSE i \in 2 .. Len(ls) : Highest(i)
    BY DEF SecondWatch
  <2>2. Highest(m)
    BY <1>8, <1>9
  <2> HIDE DEF Highest, m
  <2>3. w \in 2 .. Len(ls) /\ Highest(w)
    BY <1>7, <2>1, <2>2
  <2>4. QED
    BY <2>3 DEF Highest

\* The clause as it is stored: first what it asserts, then one of the highest
\* of the others.
Armed(s, ls) ==
    /\ IsClause(s, ls) /\ Value(s, ls[1]) = Undef
    /\ \A i \in 2 .. Len(ls) : IsFalse(s, ls[i]) /\ s.level[Var(ls[i])] \in 1 .. DecisionLevel(s)
    /\ DecisionLevel(s) > s.rootLevel => s.level[Var(ls[2])] = DecisionLevel(s)

\* Its second watch makes a ripe clause fit to be stored.
LEMMA RipeArms ==
  ASSUME NEW s, Coherent(s), NEW l, Ripe(s, l), Len(l) # 1, NEW ls, ls = Swap(l, 2, SecondWatch(s, l))
  PROVE  Armed(s, ls) /\ ls[1] = l[1]
<1> DEFINE w == SecondWatch(s, l)
<1>1. /\ l \in Seq(LitsOf(s)) /\ Len(l) \in Nat /\ Len(l) >= 2 /\ Value(s, l[1]) = Undef
      /\ \A i \in 2 .. Len(l) : IsFalse(s, l[i]) /\ s.level[Var(l[i])] \in 1 .. DecisionLevel(s)
      /\ DecisionLevel(s) > s.rootLevel => \E i \in 2 .. Len(l) : s.level[Var(l[i])] = DecisionLevel(s)
  <2>1. l \in Seq(LitsOf(s)) /\ Len(l) >= 1
    BY DEF Ripe
  <2>2. Len(l) \in Nat /\ Len(l) >= 2
    <3>1. Len(l) \in Nat
      BY <2>1, LenProperties
    <3> DEFINE k == Len(l)
    <3>2. k \in Nat /\ k >= 1 /\ k # 1
      BY <2>1, <3>1
    <3> HIDE DEF k
    <3>3. k >= 2
      BY <3>2
    <3>4. QED
      BY <3>2, <3>3 DEF k
  <2>3. QED
    BY <2>1, <2>2 DEF Ripe
<1>2. DecisionLevel(s) \in Nat /\ s.level \in [Vars(s) -> Int]
  BY Types
<1>3. w = SecondWatch(s, l)
  OBVIOUS
<1>3a. ls = Swap(l, 2, w)
  OBVIOUS
<1> HIDE DEF w
<1>4. w \in 2 .. Len(l) /\ \A j \in 2 .. Len(l) : s.level[Var(l[j])] <= s.level[Var(l[w])]
  BY <1>1, <1>2, <1>3, SecondWatchIs
<1>5. IsClause(s, l)
  BY <1>1 DEF IsClause, Ripe, Differs
<1>6. DOMAIN l = 1 .. Len(l) /\ 2 \in DOMAIN l /\ w \in DOMAIN l /\ 1 \in DOMAIN l /\ w # 1
  BY <1>1, <1>4
<1>7. /\ IsClause(s, ls) /\ Len(ls) = Len(l) /\ ls[2] = l[w] /\ ls[w] = l[2]
      /\ \A k \in DOMAIN l : k # 2 /\ k # w => ls[k] = l[k]
  <2>1. 2 \in DOMAIN l /\ w \in DOMAIN l
    BY <1>6
  <2> DEFINE g == Swap(l, 2, w)
  <2>2. /\ IsClause(s, g) /\ Len(g) = Len(l) /\ g[2] = l[w] /\ g[w] = l[2]
        /\ \A k \in DOMAIN l : k # 2 /\ k # w => g[k] = l[k]
    BY <1>5, <2>1, SwapIs
  <2>3. g = ls
    BY <1>3a
  <2> HIDE DEF g
  <2>4. QED
    BY <2>2, <2>3
<1>8. ls[1] = l[1]
  BY <1>6, <1>7
<1>9. \A i \in 2 .. Len(l) : \E j \in 2 .. Len(l) : ls[i] = l[j]
  <2>1. ASSUME NEW i \in 2 .. Len(l) PROVE \E j \in 2 .. Len(l) : ls[i] = l[j]
    <3>1. i \in DOMAIN l /\ 2 \in 2 .. Len(l)
      BY <1>1, <1>6
    <3>2. CASE i = 2
      BY <1>4, <1>7, <3>2
    <3>3. CASE i = w
      BY <1>7, <3>1, <3>3
    <3>4. CASE i # 2 /\ i # w
      BY <1>7, <3>1, <3>4
    <3>5. QED
      BY <3>2, <3>3, <3>4
  <2>2. QED
    BY <2>1
<1>10. \A i \in 2 .. Len(ls) : IsFalse(s, ls[i]) /\ s.level[Var(ls[i])] \in 1 .. DecisionLevel(s)
  BY <1>1, <1>7, <1>9
<1>11. DecisionLevel(s) > s.rootLevel => s.level[Var(ls[2])] = DecisionLevel(s)
  <2>1. SUFFICES ASSUME DecisionLevel(s) > s.rootLevel PROVE s.level[Var(ls[2])] = DecisionLevel(s)
    OBVIOUS
  <2>2. PICK i \in 2 .. Len(l) : s.level[Var(l[i])] = DecisionLevel(s)
    BY <1>1, <2>1
  <2>3. s.level[Var(l[i])] <= s.level[Var(l[w])] /\ s.level[Var(l[w])] \in 1 .. DecisionLevel(s)
    BY <1>1, <1>4
  <2>4. QED
    BY <1>2, <1>7, <2>2, <2>3
<1>12. QED
  BY <1>1, <1>7, <1>8, <1>10, <1>11 DEF Armed

\* A learnt clause is stored and implies its first literal.
LEMMA ArmedResumes ==
  ASSUME NEW s, Sound(s), Watching(s, s.qhead, {}), DecisionLevel(s) >= s.rootLevel,
         NEW ls, Armed(s, ls), NEW p, p = ls[1], NEW id \in 1 .. LastId(s), id \notin DOMAIN s.lits,
         NEW learnt \in BOOLEAN, NEW u, u = Attach(s, id, ls, learnt), NEW t, t = Enqueue(u, p, id)
  PROVE  Resumes(s, t)
<1> DEFINE q == ls[2]
           d == DecisionLevel(s)
<1>1. Coherent(s) /\ Listed(s) /\ Unassigned(s) \subseteq s.order
  BY DEF Sound
<1>2. /\ ls \in Seq(LitsOf(s)) /\ Len(ls) \in Nat /\ Len(ls) >= 2 /\ DOMAIN ls = 1 .. Len(ls)
      /\ d \in Nat /\ s.rootLevel \in Nat /\ LastId(s) \in Nat /\ id \in Nat /\ id # NoClause
      /\ \A i, j \in DOMAIN ls : Var(ls[i]) = Var(ls[j]) => i = j
  <2>1. /\ ls \in Seq(LitsOf(s)) /\ Len(ls) >= 2
        /\ \A i, j \in DOMAIN ls : Var(ls[i]) = Var(ls[j]) => i = j
    BY DEF Armed, IsClause
  <2>2. Len(ls) \in Nat /\ DOMAIN ls = 1 .. Len(ls)
    BY <2>1
  <2>3. d \in Nat /\ s.rootLevel \in Nat /\ LastId(s) \in Nat
    BY <1>1, Types
  <2>4. id \in Nat /\ id # NoClause
    BY <2>3 DEF NoClause
  <2>5. QED
    BY <2>1, <2>2, <2>3, <2>4
<1>3. p \in LitsOf(s) /\ q \in LitsOf(s) /\ Var(q) # Var(p) /\ \A i \in 1 .. Len(ls) : ls[i] \in LitsOf(s)
  <2>1. 1 \in DOMAIN ls /\ 2 \in DOMAIN ls
    BY <1>2
  <2>2. QED
    BY <1>2, <2>1
<1>4. /\ Value(s, p) = Undef /\ IsFalse(s, q) /\ s.level[Var(q)] \in 1 .. d
      /\ d > s.rootLevel => s.level[Var(q)] = d
      /\ \A i \in 2 .. Len(ls) : IsFalse(s, ls[i]) /\ s.level[Var(ls[i])] \in 1 .. d
  BY <1>2 DEF Armed
<1>5. ASSUME NEW x \in LitsOf(s), IsFalse(s, x), s.level[Var(x)] \in 1 .. d,
             NEW k \in 1 .. d, s.level[Var(x)] >= k
      PROVE  At(s, x) >= s.trailLim[k] /\ s.trailLim[k] \in Nat /\ s.simpAssigns <= s.trailLim[k] /\ At(s, x) \in Nat
  <2>1. Value(s, x) # Undef
    BY <1>1, <1>5, Types, Values DEF IsFalse
  <2>2. s.assigns[Var(x)] # Undef /\ Var(x) \in Vars(s) /\ At(s, x) \in Nat
    BY <1>1, <2>1, OnTrail, Types
  <2>3. s.trailPos[Var(x)] >= s.trailLim[k]
    BY <1>1, <1>5, <2>2, FromLevel
  <2>4. s.trailLim[k] \in Nat /\ s.simpAssigns <= s.trailLim[k]
    BY <1>1, Starts
  <2>5. QED
    BY <2>2, <2>3, <2>4 DEF At
<1>6. ASSUME NEW x \in LitsOf(s), IsFalse(s, x), s.level[Var(x)] \in 1 .. d PROVE ~Settled(s, Var(x))
  <2>1. 1 \in 1 .. d /\ s.level[Var(x)] >= 1
    BY <1>2, <1>6
  <2>2. At(s, x) >= s.trailLim[1] /\ s.trailLim[1] \in Nat /\ s.simpAssigns <= s.trailLim[1] /\ At(s, x) \in Nat
    BY <1>5, <1>6, <2>1
  <2>3. s.simpAssigns \in Nat
    BY <1>1, Types
  <2>4. ~(At(s, x) < s.simpAssigns)
    BY <2>2, <2>3
  <2>5. QED
    BY <2>4 DEF Settled, At
<1>7. Joins(s, id, ls)
  <2>1. s.assigns[Var(p)] = Undef
    BY <1>1, <1>3, <1>4, Types, Values
  <2>2. ~Settled(s, Var(p))
    BY <2>1 DEF Settled
  <2>3. \A i \in 2 .. Len(ls) : ~Settled(s, Var(ls[i]))
    BY <1>2, <1>3, <1>4, <1>6
  <2>4. \A i \in DOMAIN ls : ~Settled(s, Var(ls[i]))
    <3>1. \A i \in DOMAIN ls : i = 1 \/ i \in 2 .. Len(ls)
      BY <1>2
    <3>2. QED
      BY <2>2, <2>3, <3>1
  <2>5. 1 \in DOMAIN ls /\ 2 \in DOMAIN ls /\ IsClause(s, ls)
    BY <1>2 DEF Armed
  <2>6. QED
    BY <2>4, <2>5 DEF Joins
<1>8. Attaches(s, u, id, ls) /\ u.ok = s.ok /\ u.order = s.order /\ u.qhead = s.qhead
  BY <1>1, AttachedAttaches
<1>9. /\ Coherent(u) /\ Listed(u) /\ id \in DOMAIN u.lits /\ u.lits[id] = ls /\ Sound(u)
  BY <1>1, <1>7, <1>8, AttachSound
<1>10. /\ DOMAIN u.lits = DOMAIN s.lits \cup {id}
       /\ \A e \in DOMAIN s.lits : Awake(u, e, s.qhead, {})
  <2>1. /\ id \in 1 .. LastId(s) /\ id \notin DOMAIN s.lits /\ IsClause(s, ls)
        /\ \A i \in DOMAIN ls : Value(s, ls[i]) = True => ~Settled(s, Var(ls[i]))
        /\ ~Settled(s, Var(ls[1])) /\ ~Settled(s, Var(ls[2]))
    BY <1>7 DEF Joins
  <2>2. /\ DOMAIN u.lits = DOMAIN s.lits \cup {id}
        /\ \A e \in DOMAIN s.lits : \A h, late : Awake(s, e, h, late) => Awake(u, e, h, late)
    BY <1>1, <1>8, <2>1, AttachesKeeps
  <2>3. \A e \in DOMAIN s.lits : Awake(s, e, s.qhead, {})
    BY DEF Watching
  <2>4. QED
    BY <2>2, <2>3
<1>11. SameTrail(s, u)
  BY <1>8 DEF Attaches
<1>12. /\ LitsOf(u) = LitsOf(s) /\ DecisionLevel(u) = d /\ u.rootLevel = s.rootLevel
       /\ u.level = s.level /\ u.trailLim = s.trailLim
       /\ \A x : Value(u, x) = Value(s, x) /\ (IsFalse(u, x) <=> IsFalse(s, x)) /\ At(u, x) = At(s, x)
  BY <1>11, SameTrailIs DEF SameTrail
<1> HIDE DEF q
<1>13. /\ Assigns(u, t, p, id, DecisionLevel(u)) /\ t.watches = u.watches /\ t.order = u.order
       /\ t.ok = u.ok /\ t.qhead = u.qhead /\ t.lits = u.lits
  <2>1. p \in LitsOf(u) /\ Value(u, p) = Undef
    BY <1>3, <1>4, <1>12
  <2>2. QED
    BY <1>9, <2>1, EnqueueAssigns
<1>14. Justified(u, p, id, d)
  <2>1. p \in LitsOf(u) /\ Value(u, p) = Undef /\ id \in Nat /\ d \in {0, DecisionLevel(u)}
    BY <1>2, <1>3, <1>4, <1>12
  <2>2. d = 0 => DecisionLevel(u) <= u.rootLevel
    BY <1>2, <1>12
  <2>3. u.lits[id][1] = p /\ \A i \in 2 .. Len(u.lits[id]) : IsFalse(u, u.lits[id][i])
    BY <1>4, <1>9, <1>12
  <2>4. d > u.rootLevel => \E i \in 2 .. Len(u.lits[id]) : u.level[Var(u.lits[id][i])] = d
    <3>1. 2 \in 2 .. Len(ls)
      BY <1>2
    <3>2. QED
      BY <1>4, <1>9, <1>12, <3>1 DEF q
  <2>5. QED
    BY <1>2, <1>9, <2>1, <2>2, <2>3, <2>4 DEF Justified
<1>15. Stocked(u, p)
  BY <1>9 DEF Stocked, Sound
<1>16. Assigns(u, t, p, id, d)
  BY <1>12, <1>13
<1> HIDE DEF d
<1>17. /\ Sound(t) /\ LitsOf(t) = LitsOf(u) /\ DecisionLevel(t) = DecisionLevel(u)
       /\ t.qhead = u.qhead /\ t.rootLevel = u.rootLevel
  BY <1>9, <1>13, <1>14, <1>15, <1>16, AssignsSound
<1>18. \A e \in DOMAIN s.lits : Awake(t, e, s.qhead, {})
  <2>1. s.qhead \in 0 .. NAssigns(u)
    <3>1. s.qhead \in Nat /\ NAssigns(u) \in Nat /\ u.qhead <= NAssigns(u)
      BY <1>1, <1>9, Types, Starts
    <3>2. QED
      BY <1>8, <3>1
  <2>2. \A c \in DOMAIN u.lits : \A h \in 0 .. NAssigns(u) : \A late : Awake(u, c, h, late) => Awake(t, c, h, late)
    BY <1>9, <1>14, <1>16, AssignsKeeps
  <2>3. QED
    BY <1>10, <2>1, <2>2
<1>19. Awake(t, id, s.qhead, {})
  <2>1. /\ Value(t, p) = True /\ At(t, q) = At(s, q) /\ DecisionLevel(t) = d /\ t.trailLim = s.trailLim /\ t.rootLevel = s.rootLevel
        /\ t.lits[id] = ls
    <3>1. p \in LitsOf(u) /\ q \in LitsOf(u) /\ Value(u, p) = Undef /\ id \in Nat /\ d \in Nat
      BY <1>2, <1>3, <1>4, <1>12 DEF q
    <3>2. Value(t, p) = True /\ At(t, q) = At(u, q)
      BY <1>3, <1>9, <1>16, <3>1, AssignsIs DEF q
    <3>3. QED
      BY <1>9, <1>12, <1>13, <1>17, <3>2 DEF Assigns
  <2>2. Outlives(t, p, q)
    <3>1. ASSUME NEW k \in 1 .. d, k = 1 \/ k > s.rootLevel PROVE ~(At(s, q) < s.trailLim[k])
      <4>1. s.level[Var(q)] >= k /\ q \in LitsOf(s) /\ IsFalse(s, q) /\ s.level[Var(q)] \in 1 .. d
        <5>1. CASE k = 1
          BY <1>3, <1>4, <5>1 DEF q
        <5>2. CASE k > s.rootLevel
          <6>1. d > s.rootLevel
            BY <1>2, <5>2
          <6>2. QED
            BY <1>2, <1>3, <1>4, <6>1 DEF q
        <5>3. QED
          BY <3>1, <5>1, <5>2
      <4>2. At(s, q) >= s.trailLim[k] /\ s.trailLim[k] \in Nat /\ At(s, q) \in Nat
        BY <1>5, <4>1
      <4>3. QED
        BY <4>2
    <3>2. QED
      BY <2>1, <3>1 DEF Outlives
  <2>3. ~IsFalse(t, p)
    <3>1. True # False
      BY DEF True, False
    <3>2. QED
      BY <2>1, <3>1 DEF IsFalse
  <2>4. t.lits[id][1] = p /\ t.lits[id][2] = q
    BY <2>1 DEF q
  <2>5. QED
    <3> HIDE DEF q
    <3>1. ASSUME NEW i \in {1, 2}, IsFalse(t, t.lits[id][i]) PROVE Guards(t, t.lits[id][3 - i], t.lits[id][i])
      <4>1. i = 2
        BY <2>3, <2>4, <3>1
      <4>2. 3 - i = 1
        BY <4>1
      <4>3. QED
        BY <2>1, <2>2, <2>4, <4>1, <4>2 DEF Guards
    <3>2. QED
      BY <3>1 DEF Awake
<1>20. Watching(t, t.qhead, {})
  <2>1. DOMAIN t.lits = DOMAIN s.lits \cup {id} /\ t.qhead = s.qhead
    BY <1>8, <1>10, <1>13
  <2>2. QED
    BY <1>18, <1>19, <2>1 DEF Watching
<1>21. QED
  BY <1>8, <1>12, <1>13, <1>17, <1>20 DEF Resumes, d

\* What was learnt is installed at the level it goes back to.
LEMMA BackjumpResumes ==
  ASSUME NEW s, Sound(s), DecisionLevel(s) > s.rootLevel, Watching(s, LevelStart(s), {}),
         NEW r, r.s = s, NEW l, r.learnt = l, NEW bt, r.bt = bt, Asserting(s, l, bt),
         NEW id, id = LastId(s), id \in 1 .. LastId(s), id \notin DOMAIN s.lits,
         NEW t, t = Backjump(r)
  PROVE  Resumes(s, t)
<1> DEFINE n == Max({bt, s.rootLevel})
           u == CancelUntil(s, n)
           b == TRUE
           w == Install(u, l, b, id)
<1>1. Coherent(s) /\ Listed(s)
  BY DEF Sound
<1>2. n = Max({bt, s.rootLevel}) /\ u = CancelUntil(s, n) /\ b = TRUE /\ b \in BOOLEAN
  OBVIOUS
<1>3. t = SettleUnit(w, l)
  BY DEF Backjump
<1>3a. w = Install(u, l, TRUE, id)
  OBVIOUS
<1>3b. w = Install(u, l, b, id)
  OBVIOUS
<1> HIDE DEF n, u, b, w
<1>4. n \in Nat /\ n >= s.rootLevel /\ n < DecisionLevel(s) /\ \A x : Returns(s, x, n) => Ripe(x, l)
  BY <1>1, <1>2, ReturnRipens
<1>5. DecisionLevel(s) > n /\ ~(DecisionLevel(s) <= n) /\ DecisionLevel(s) \in Nat
  BY <1>1, <1>4, Types
<1>6. /\ Sound(u) /\ (u.ok => Watching(u, u.qhead, {})) /\ u.ok = s.ok /\ u.rootLevel = s.rootLevel
      /\ LitsOf(u) = LitsOf(s) /\ Returns(s, u, n)
  BY <1>2, <1>4, <1>5, CancelKeeps
<1>7. Ripe(u, l) /\ u.log = s.log /\ u.lits = s.lits
  BY <1>4, <1>6 DEF Returns
<1>8. Watching(u, u.qhead, {})
  <2>1. n \in 0 .. DecisionLevel(s) - 1
    BY <1>4, <1>5
  <2>2. QED
    BY <1>1, <1>4, <1>6, <2>1, ReturnsKeeps
<1>9. LastId(u) = LastId(s) /\ id \in 1 .. LastId(u) /\ id \notin DOMAIN u.lits /\ id \in Nat
  <2>1. LastId(s) \in Nat
    BY <1>1, Types
  <2>2. QED
    BY <1>7, <2>1 DEF LastId
<1>10. Resumes(u, t)
  <2>1. CASE Len(l) = 1
    <3>1. t = SettleUnit(Install(u, l, b, id), l)
      BY <1>3, <1>3b
    <3>2. QED
      BY <1>6, <1>7, <1>8, <1>9, <2>1, <3>1, UnitResumes
  <2>2. CASE Len(l) # 1
    <3> DEFINE ls == Swap(l, 2, SecondWatch(u, l))
               p == l[1]
               at == Attach(u, id, ls, b)
    <3>1. t = w
      BY <1>3, <2>2 DEF SettleUnit
    <3>2. l # <<>>
      <4>1. Len(l) >= 1
        BY <1>7 DEF Ripe
      <4>2. Len(<<>>) = 0
        OBVIOUS
      <4>3. QED
        BY <4>1, <4>2
    <3>3. w = Enqueue(Attach(u, id, ls, TRUE), p, id)
      BY <1>3a, <2>2, <3>2 DEF Install
    <3>4. t = Enqueue(at, p, id)
      BY <1>2, <3>1, <3>3, Zenon
    <3>5. at = Attach(u, id, ls, b) /\ ls = Swap(l, 2, SecondWatch(u, l)) /\ p = l[1]
      OBVIOUS
    <3> HIDE DEF ls, at, p
    <3>6. Coherent(u) /\ DecisionLevel(u) >= u.rootLevel
      BY <1>6, <1>7 DEF Sound, Ripe
    <3>7. Armed(u, ls) /\ p = ls[1]
      BY <1>7, <2>2, <3>5, <3>6, RipeArms
    <3>8. Sound(u) /\ DecisionLevel(u) >= u.rootLevel /\ b \in BOOLEAN
      BY <1>2, <1>6, <3>6
    <3>9. id \in 1 .. LastId(u) /\ id \notin DOMAIN u.lits
      BY <1>9
    <3>10. at = Attach(u, id, ls, b)
      BY <3>5
    <3>11. Armed(u, ls)
      BY <3>7
    <3>12. p = ls[1]
      BY <3>7
    <3>13. QED
      BY <1>8, <3>4, <3>8, <3>9, <3>10, <3>11, <3>12, ArmedResumes
  <2>3. QED
    BY <2>1, <2>2
<1>11. QED
  BY <1>6, <1>10 DEF Resumes

\* A conflict above the root is analysed and what was learnt installed.
LEMMA LearnResumes ==
  ASSUME NEW s, Sound(s), DecisionLevel(s) > s.rootLevel, NEW confl, InConflict(s, confl),
         NEW t, t = Backjump(Analyze([s EXCEPT !.conflicts = @ + 1], confl))
  PROVE  Resumes(s, t)
<1> DEFINE u == [s EXCEPT !.conflicts = @ + 1]
           r == Analyze(u, confl)
           x == r.s
           l == r.learnt
           bt == r.bt
           id == LastId(x)
<1>1. Coherent(s)
  BY DEF Sound
<1>2. Shaped(s)
  BY <1>1, Types
<1>3. SameBut(s, u, {"conflicts"})
  BY <1>2, ConflictsIs
<1>4. t = Backjump(r) /\ r = Analyze(u, confl)
  OBVIOUS
<1> HIDE DEF u
<1>5. Remarked(s, u)
  <2> DEFINE F == {"conflicts"}
  <2>1. F \subseteq {"model", "conflict", "conflictId", "conflicts"} /\ SameBut(s, u, F)
    BY <1>3
  <2> HIDE DEF F
  <2>2. QED
    BY <1>1, <2>1, SameButRemarks
<1>6. Sound(u) /\ InConflict(u, confl) /\ LitsOf(u) = LitsOf(s) /\ u.ok = s.ok /\ DecisionLevel(u) > u.rootLevel
  BY <1>5, RemarkedKeeps
<1>7. x = r.s /\ l = r.learnt /\ bt = r.bt /\ id = LastId(x)
  OBVIOUS
<1> HIDE DEF r
<1>8. Coherent(u)
  BY <1>6 DEF Sound
<1>9. Logged(u, r.s) /\ LastId(r.s) = LastId(u) + 1 /\ Asserting(u, r.learnt, r.bt)
  BY <1>4, <1>6, <1>8, Analyzes
<1>10. Logged(u, x) /\ LastId(x) = LastId(u) + 1 /\ Asserting(u, l, bt)
  BY <1>9
<1> HIDE DEF x, l, bt, id
<1>11. SameTrail(u, x) /\ x.watches = u.watches /\ x.order = u.order /\ x.lits = u.lits /\ x.ok = u.ok
  BY <1>10 DEF Logged
<1>12. Remarked(u, x)
  BY <1>8, <1>10, LoggedNotes DEF Remarked
<1>13. Sound(x) /\ InConflict(x, confl) /\ LitsOf(x) = LitsOf(u) /\ DecisionLevel(x) = DecisionLevel(u) /\ x.rootLevel = u.rootLevel
  BY <1>6, <1>12, RemarkedKeeps
<1>14. DecisionLevel(x) > x.rootLevel /\ Watching(x, LevelStart(x), {})
  BY <1>6, <1>13 DEF InConflict
<1>15. Asserting(x, l, bt)
  BY <1>10, <1>11, AssertingKeeps
<1>16. id \in 1 .. LastId(x) /\ id \notin DOMAIN x.lits
  <2>1. DOMAIN u.lits \subseteq 1 .. LastId(u) /\ LastId(u) \in Nat
    BY <1>8, Types DEF Coherent, Stored
  <2>2. id = LastId(u) + 1 /\ id = LastId(x)
    BY <1>7, <1>10
  <2>3. id \notin 1 .. LastId(u) /\ id \in 1 .. LastId(x)
    BY <2>1, <2>2
  <2>4. QED
    BY <1>11, <2>1, <2>3
<1>17. Resumes(x, t)
  BY <1>4, <1>7, <1>13, <1>14, <1>15, <1>16, BackjumpResumes
<1>18. QED
  BY <1>6, <1>11, <1>13, <1>17 DEF Resumes

\* The fields of a new solver.
LEMMA EmptyIs ==
  ASSUME NEW s, s = EmptySolver, NEW none, none = <<>>
  PROVE  /\ Shaped(s) /\ s.ok = TRUE /\ s.lits = none /\ s.clauses = {} /\ s.learnts = {}
         /\ s.unitId = none /\ s.order = {} /\ s.watches = none /\ s.assigns = none /\ s.trail = none
         /\ s.trailLim = none /\ s.reason = none /\ s.level = none /\ s.trailPos = none
         /\ s.rootLevel = 0 /\ s.qhead = 0 /\ s.simpAssigns = 0 /\ s.log = none
BY DEF EmptySolver, Shaped, Fields

\* The empty sequence as a sequence and as a function.
LEMMA NoneIs ==
  ASSUME NEW none, none = <<>>
  PROVE  /\ DOMAIN none = {} /\ Len(none) = 0 /\ none = [x \in {} |-> none[x]] /\ Range(none) = {}
         /\ \A T : none \in Seq(T) /\ none \in [{} -> T]
<1>1. DOMAIN none = {} /\ Len(none) = 0 /\ \A T : none \in Seq(T)
  OBVIOUS
<1>2. none = [x \in {} |-> none[x]] /\ \A T : none \in [{} -> T]
  BY <1>1
<1>3. Range(none) = {}
  BY <1>1 DEF Range
<1>4. QED
  BY <1>1, <1>2, <1>3

\* A new solver meets the invariant.
LEMMA EmptySound ==
  ASSUME NEW s, s = EmptySolver
  PROVE  Sound(s) /\ DecisionLevel(s) = 0 /\ Watching(s, s.qhead, {})
<1> DEFINE none == <<>>
<1>1. none = <<>>
  OBVIOUS
<1> HIDE DEF none
<1>2. /\ DOMAIN none = {} /\ Len(none) = 0 /\ none = [x \in {} |-> none[x]] /\ Range(none) = {}
      /\ \A T : none \in Seq(T) /\ none \in [{} -> T]
  BY <1>1, NoneIs
<1>3. /\ Shaped(s) /\ s.ok = TRUE /\ s.lits = none /\ s.clauses = {} /\ s.learnts = {}
      /\ s.unitId = none /\ s.order = {} /\ s.watches = none /\ s.assigns = none /\ s.trail = none
      /\ s.trailLim = none /\ s.reason = none /\ s.level = none /\ s.trailPos = none
      /\ s.rootLevel = 0 /\ s.qhead = 0 /\ s.simpAssigns = 0 /\ s.log = none
  BY <1>1, EmptyIs
<1>4. /\ Vars(s) = {} /\ LitsOf(s) = {} /\ NAssigns(s) = 0 /\ DecisionLevel(s) = 0 /\ DOMAIN s.lits = {}
      /\ Unassigned(s) = {} /\ LastId(s) = 0
  BY <1>2, <1>3 DEF Vars, LitsOf, NAssigns, DecisionLevel, Unassigned, LastId
<1>5. Typed(s)
  <2>1. IsFiniteSet({}) /\ 0 \in Nat /\ TRUE \in BOOLEAN
    BY FS_EmptySet
  <2>2. /\ s.assigns \in [Vars(s) -> {True, False, Undef}]
        /\ s.reason \in [Vars(s) -> Nat] /\ s.unitId \in [Vars(s) -> Nat]
        /\ s.level \in [Vars(s) -> Int] /\ s.trailPos \in [Vars(s) -> Int]
    BY <1>2, <1>3, <1>4
  <2>3. s.trail \in Seq(LitsOf(s)) /\ s.trailLim \in Seq(Nat) /\ s.log \in Seq(Range(s.log))
    BY <1>2, <1>3
  <2>4. QED
    BY <1>3, <1>4, <2>1, <2>2, <2>3 DEF Typed
<1>6. Stored(s)
  BY <1>2, <1>3, <1>4 DEF Stored
<1>7. Trailed(s) /\ Levelled(s) /\ Reasoned(s)
  BY <1>3, <1>4 DEF Trailed, Levelled, Reasoned
<1>8. Simplified(s) /\ Watching(s, s.qhead, {})
  BY <1>3, <1>4 DEF Simplified, Watching
<1>9. Listed(s)
  <2>1. Lists(s, s.watches)
    BY <1>2, <1>3, <1>4 DEF Lists
  <2>2. Covers(s, Places(s.watches))
    BY <1>4 DEF Covers
  <2>3. QED
    BY <2>1, <2>2 DEF Listed
<1>10. QED
  BY <1>3, <1>4, <1>5, <1>6, <1>7, <1>8, <1>9 DEF Sound, Coherent

\* What is propagated further is propagated less far.
LEMMA WatchingLess ==
  ASSUME NEW s, Coherent(s), NEW h \in Nat, NEW n \in Nat, n <= h, NEW late, late = {}, Watching(s, h, late)
  PROVE  Watching(s, n, late)
<1>1. ASSUME NEW c \in DOMAIN s.lits, NEW i \in {1, 2}, IsFalse(s, s.lits[c][i]), At(s, s.lits[c][i]) < n
      PROVE  Guards(s, s.lits[c][3 - i], s.lits[c][i])
  <2> DEFINE q == s.lits[c][i]
  <2>1. q \in LitsOf(s)
    BY LitsOfClause
  <2>2. At(s, q) \in Nat
    <3>1. Value(s, q) # Undef
      BY <1>1, <2>1, Types, Values DEF IsFalse
    <3> HIDE DEF q
    <3>2. QED
      BY <2>1, <3>1, OnTrail
  <2>3. At(s, q) < h
    <3> HIDE DEF q
    <3>1. At(s, q) < n
      BY <1>1 DEF q
    <3>2. QED
      BY <2>2, <3>1
  <2>4. Awake(s, c, h, late)
    BY DEF Watching
  <2>5. QED
    BY <1>1, <2>3, <2>4 DEF Awake
<1>2. QED
  BY <1>1 DEF Watching, Awake

\* A solver that is about to decide.
Decidable(s) ==
    /\ Sound(s) /\ s.ok /\ s.qhead = NAssigns(s) /\ Watching(s, s.qhead, {})
    /\ DecisionLevel(s) >= s.rootLevel

\* What it has propagated includes the beginning of the last level.
LEMMA DecidableStarts ==
  ASSUME NEW s, Decidable(s)
  PROVE  Coherent(s) /\ Watching(s, LevelStart(s), {})
<1>1. Coherent(s) /\ Watching(s, s.qhead, {})
  BY DEF Decidable, Sound
<1>2. LevelStart(s) \in Nat /\ s.qhead \in Nat /\ LevelStart(s) <= s.qhead
  BY <1>1, Types, Starts
<1> DEFINE late == {}
<1>3. late = {} /\ Watching(s, s.qhead, late)
  BY <1>1
<1> HIDE DEF late
<1>4. Watching(s, LevelStart(s), late)
  BY <1>1, <1>2, <1>3, WatchingLess
<1>5. QED
  BY <1>1, <1>3, <1>4

\* Every return of solve leaves the solver at level 0.
LEMMA ReturnFits ==
  ASSUME NEW s, Sound(s), DecisionLevel(s) > 0 => Watching(s, LevelStart(s), {}),
         DecisionLevel(s) = 0 => (s.ok => Watching(s, s.qhead, {})),
         NEW t, t = CancelUntil(s, 0), NEW q, NEW confl
  PROVE  Fits(t, "idle", q, confl)
<1> DEFINE l == 0
<1>1. l \in Nat /\ l = 0 /\ t = CancelUntil(s, l)
  OBVIOUS
<1>2. DecisionLevel(s) \in Nat
  BY Types DEF Sound
<1>3. DecisionLevel(s) > l => Watching(s, LevelStart(s), {})
  BY <1>2
<1>4. DecisionLevel(s) <= l => (s.ok => Watching(s, s.qhead, {}))
  BY <1>2
<1> HIDE DEF l
<1>5. /\ Sound(t) /\ (t.ok => Watching(t, t.qhead, {}))
      /\ DecisionLevel(t) = IF DecisionLevel(s) > l THEN l ELSE DecisionLevel(s)
  BY <1>1, <1>3, <1>4, CancelKeeps
<1>6. DecisionLevel(t) = 0
  BY <1>1, <1>2, <1>5
<1>7. QED
  BY <1>5, <1>6 DEF Fits, Searching

\* Returning from a decision point.
LEMMA DecidableReturns ==
  ASSUME NEW s, Decidable(s), NEW t, t = CancelUntil(s, 0), NEW q, NEW confl
  PROVE  Fits(t, "idle", q, confl)
<1>1. Watching(s, LevelStart(s), {})
  BY DecidableStarts
<1>2. Sound(s) /\ Watching(s, s.qhead, {})
  BY DEF Decidable
<1>3. QED
  BY <1>1, <1>2, ReturnFits

\* Removing inactive clauses that are no reasons.
LEMMA ReducedDecidable ==
  ASSUME NEW s, Decidable(s), NEW cs \in Reductions(s), NEW t, t = RemoveAll(s, cs)
  PROVE  Decidable(t)
<1>1. Sound(s) /\ Stored(s)
  BY DEF Decidable, Sound, Coherent
<1>2. \A c \in cs : c \in DOMAIN s.lits /\ ~Locked(s, c)
  <2>1. cs \subseteq {c \in s.learnts : ~Locked(s, c)}
    BY DEF Reductions
  <2>2. s.learnts \subseteq DOMAIN s.lits
    BY <1>1 DEF Stored
  <2>3. QED
    BY <2>1, <2>2
<1>3. Drops(s, t, cs) /\ Sound(t) /\ \A h, late : Watching(s, h, late) => Watching(t, h, late)
  BY <1>1, <1>2, RemoveKeeps
<1>4. SameTrail(s, t) /\ t.ok = s.ok /\ t.qhead = s.qhead
  BY <1>3 DEF Drops
<1>5. NAssigns(t) = NAssigns(s) /\ DecisionLevel(t) = DecisionLevel(s) /\ t.rootLevel = s.rootLevel
  BY <1>4, SameTrailIs DEF SameTrail
<1>6. QED
  BY <1>3, <1>4, <1>5 DEF Decidable

\* The solvers a decision may start from.
LEMMA ToDecideIs ==
  ASSUME Decidable(sv), NEW s \in ToDecide
  PROVE  Decidable(s)
<1>1. PICK u \in Tidied : s \in Reduced(u)
  BY DEF ToDecide
<1>2. Decidable(u)
  <2>1. PICK due \in BOOLEAN : u = IF DecisionLevel(sv) = 0 THEN SimplifyDB(sv, due) ELSE sv
    BY <1>1 DEF Tidied
  <2>2. CASE DecisionLevel(sv) = 0
    <3>1. u = SimplifyDB(sv, due)
      BY <2>1, <2>2
    <3>2. Sound(sv) /\ (sv.ok => Watching(sv, sv.qhead, {})) /\ sv.ok /\ sv.qhead = NAssigns(sv)
      BY DEF Decidable
    <3>3. /\ Sound(u) /\ DecisionLevel(u) = 0 /\ u.rootLevel = sv.rootLevel
          /\ u.ok => Watching(u, u.qhead, {}) /\ u.qhead = NAssigns(u)
          /\ sv.ok /\ sv.qhead = NAssigns(sv) => u.ok
      BY <2>2, <3>1, <3>2, SimplifyKeeps
    <3>4. DecisionLevel(sv) >= sv.rootLevel
      BY DEF Decidable
    <3>5. QED
      BY <2>2, <3>2, <3>3, <3>4 DEF Decidable
  <2>3. CASE DecisionLevel(sv) # 0
    BY <2>1, <2>3
  <2>4. QED
    BY <2>2, <2>3
<1>3. s = u \/ \E cs \in Reductions(u) : s = RemoveAll(u, cs)
  BY <1>1 DEF Reduced
<1>4. QED
  BY <1>2, <1>3, ReducedDecidable

\* A variable without a value is selected as long as there is one.
LEMMA SelectionIs ==
  ASSUME NEW s, Vars(s) \subseteq Nat, Unassigned(s) \subseteq s.order, NEW sel \in Selections(s)
  PROVE  /\ sel.next >= 0 => sel.next \in Unassigned(s) /\ Unassigned(s) \subseteq sel.order \cup {sel.next}
         /\ sel.next < 0 => Unassigned(s) \subseteq sel.order
<1> DEFINE free == s.order \cap Unassigned(s)
           dropped == s.order \ Unassigned(s)
<1>1. free = Unassigned(s) /\ \A v \in free : v \in Nat
  BY DEF Unassigned
<1>2. \/ \E v \in Unassigned(s) : sel = [next |-> v, order |-> s.order]
      \/ \E v \in free, d \in SUBSET dropped : sel = [next |-> v, order |-> s.order \ (d \cup {v})]
      \/ free = {} /\ sel = [next |-> -1, order |-> {}]
  BY DEF Selections
<1>3. CASE \E v \in Unassigned(s) : sel = [next |-> v, order |-> s.order]
  <2>1. PICK v \in Unassigned(s) : sel = [next |-> v, order |-> s.order]
    BY <1>3
  <2>2. sel.next = v /\ sel.order = s.order /\ v \in Nat
    BY <1>1, <2>1
  <2>3. QED
    BY <2>2
<1>4. CASE \E v \in free, d \in SUBSET dropped : sel = [next |-> v, order |-> s.order \ (d \cup {v})]
  <2>1. PICK v \in free, d \in SUBSET dropped : sel = [next |-> v, order |-> s.order \ (d \cup {v})]
    BY <1>4
  <2>2. sel.next = v /\ sel.order = s.order \ (d \cup {v}) /\ v \in Nat
    BY <1>1, <2>1
  <2>3. QED
    BY <1>1, <2>2
<1>5. CASE free = {} /\ sel = [next |-> -1, order |-> {}]
  <2>1. sel.next = -1 /\ Unassigned(s) = {}
    BY <1>1, <1>5
  <2>2. QED
    BY <2>1
<1>6. QED
  BY <1>2, <1>3, <1>4, <1>5

\* A decision opens a level, which is to be propagated.
LEMMA DecisionResumes ==
  ASSUME NEW s, Decidable(s), NEW sel \in Selections(s), sel.next >= 0,
         NEW t, t = Assume([s EXCEPT !.order = sel.order], Neg(PosLit(sel.next))),
         NEW q, NEW confl
  PROVE  Fits(t, "propagate", q, confl)
<1> DEFINE v == sel.next
           p == Neg(PosLit(v))
           u == [s EXCEPT !.order = sel.order]
<1>1. Coherent(s) /\ Listed(s) /\ Unassigned(s) \subseteq s.order /\ Vars(s) \subseteq Nat /\ Shaped(s)
  BY Types DEF Decidable, Sound
<1>2. v \in Unassigned(s) /\ Unassigned(s) \subseteq sel.order \cup {v} /\ v \in Nat /\ v \in Vars(s)
  BY <1>1, SelectionIs DEF Unassigned
<1>3. SameBut(s, u, {"order"}) /\ u.order = sel.order
  BY <1>1, OrderIs
<1>4. t = Assume(u, p) /\ p = Neg(PosLit(v)) /\ v = sel.next
  OBVIOUS
<1> HIDE DEF u, p, v
<1>5. p \in LitsOf(s) /\ Var(p) = v
  <2>1. PosLit(v) \in Nat /\ Var(PosLit(v)) = v
    BY <1>2, LiteralOf
  <2>2. Neg(PosLit(v)) \in Nat /\ Var(Neg(PosLit(v))) = v
    BY <2>1, Literal
  <2>3. QED
    BY <1>2, <1>4, <2>2 DEF LitsOf
<1>6. Notes(s, u) /\ u.watches = s.watches /\ u.qhead = s.qhead /\ u.ok = s.ok
  <2> DEFINE F == {"order"}
  <2>1. SameBut(s, u, F) /\ F \cap Fixtures = {}
    BY <1>3 DEF Fixtures
  <2>2. /\ u.qhead = s.qhead /\ u.ok = s.ok /\ u.unitId = s.unitId /\ u.log = s.log /\ u.watches = s.watches
    BY <1>3 DEF SameBut, Fields
  <2>3. /\ u.ok \in BOOLEAN /\ u.unitId \in [Vars(s) -> Nat] /\ u.log \in Seq(Range(u.log))
        /\ LastId(u) >= LastId(s)
    <3>1. s.ok \in BOOLEAN /\ s.unitId \in [Vars(s) -> Nat] /\ s.log \in Seq(Range(s.log)) /\ LastId(s) \in Nat
      BY <1>1, Types DEF Coherent, Typed
    <3>2. LastId(u) = LastId(s)
      BY <2>2 DEF LastId
    <3>3. QED
      BY <2>2, <3>1, <3>2
  <2> HIDE DEF F
  <2>4. QED
    BY <2>1, <2>2, <2>3, SameButNotes
<1>7. Coherent(u) /\ Listed(u) /\ \A h, late : Watching(s, h, late) => Watching(u, h, late)
  <2>1. /\ Coherent(s) => Coherent(u)
        /\ \A R : Covers(s, R) => Covers(u, R)
        /\ \A w : Lists(s, w) => Lists(u, w)
        /\ \A h, late : Watching(s, h, late) => Watching(u, h, late)
    BY <1>6, NotesKeep
  <2>2. Lists(s, s.watches) /\ Covers(s, Places(s.watches))
    BY <1>1 DEF Listed
  <2>3. Lists(u, u.watches) /\ Covers(u, Places(u.watches))
    BY <1>6, <2>1, <2>2
  <2>4. QED
    BY <1>1, <2>1, <2>3 DEF Listed
<1>8. SameTrail(s, u)
  <2> DEFINE F == {"order"}
  <2>1. SameBut(s, u, F) /\ F \cap Fixtures = {}
    BY <1>3 DEF Fixtures
  <2> HIDE DEF F
  <2>2. QED
    BY <2>1, SameButIs
<1>9. /\ LitsOf(u) = LitsOf(s) /\ NAssigns(u) = NAssigns(s) /\ DecisionLevel(u) = DecisionLevel(s)
      /\ Unassigned(u) = Unassigned(s) /\ u.rootLevel = s.rootLevel
  BY <1>8, SameTrailIs DEF SameTrail
<1>10. Stocked(u, p)
  BY <1>2, <1>3, <1>5, <1>9 DEF Stocked
<1>11. s.qhead = NAssigns(s) /\ s.ok /\ Watching(s, s.qhead, {}) /\ DecisionLevel(s) >= s.rootLevel
  BY DEF Decidable
<1>12. p \in LitsOf(u) /\ u.qhead = NAssigns(u) /\ Watching(u, u.qhead, {})
  BY <1>5, <1>6, <1>7, <1>9, <1>11
<1>13. /\ Sound(t) /\ DecisionLevel(t) = DecisionLevel(u) + 1 /\ t.rootLevel = u.rootLevel /\ t.ok = u.ok
       /\ Watching(u, u.qhead, {}) => Watching(t, t.qhead, {})
  BY <1>4, <1>7, <1>10, <1>12, AssumeKeeps
<1>14. DecisionLevel(t) >= t.rootLevel
  <2>1. DecisionLevel(s) \in Nat /\ s.rootLevel \in Nat
    BY <1>1, Types
  <2>2. QED
    BY <1>9, <1>11, <1>13, <2>1
<1>15. QED
  BY <1>6, <1>11, <1>12, <1>13, <1>14 DEF Fits

\* The assignment is noted as the model.
Models(s, t, o) ==
    /\ Notes(s, t) /\ t.watches = s.watches /\ t.order = o /\ t.qhead = s.qhead /\ t.ok = s.ok
\* What noting the model and the heap changes.
LEMMA ModelsIs ==
  ASSUME NEW s, Coherent(s), NEW o, NEW m, NEW t, t = [s EXCEPT !.order = o, !.model = m]
  PROVE  Models(s, t, o)
<1>1. Shaped(s)
  BY Types
<1> DEFINE F == {"order", "model"}
<1>2. SameBut(s, t, F) /\ t.order = o
  BY <1>1 DEF SameBut, Shaped, Fields
<1>3. F \cap Fixtures = {}
  BY DEF Fixtures
<1>4. t.qhead = s.qhead /\ t.ok = s.ok /\ t.unitId = s.unitId /\ t.log = s.log /\ t.watches = s.watches
  BY <1>2 DEF SameBut, Fields
<1> HIDE DEF F
<1>5. /\ t.ok \in BOOLEAN /\ t.unitId \in [Vars(s) -> Nat] /\ t.log \in Seq(Range(t.log))
      /\ LastId(t) >= LastId(s)
  <2>1. s.ok \in BOOLEAN /\ s.unitId \in [Vars(s) -> Nat] /\ s.log \in Seq(Range(s.log)) /\ LastId(s) \in Nat
    BY Types DEF Coherent, Typed
  <2>2. LastId(t) = LastId(s)
    BY <1>4 DEF LastId
  <2>3. QED
    BY <1>4, <2>1, <2>2
<1>6. QED
  BY <1>2, <1>3, <1>4, <1>5, SameButNotes DEF Models

\* When nothing is left to decide the solver has a model.
LEMMA ModelReturns ==
  ASSUME NEW s, Decidable(s), NEW sel \in Selections(s), sel.next < 0,
         NEW u, u = [s EXCEPT !.order = sel.order, !.model = s.assigns],
         NEW t, t = CancelUntil(u, 0), NEW q, NEW confl
  PROVE  Fits(t, "idle", q, confl)
<1> DEFINE o == sel.order
           m == s.assigns
<1>1. Coherent(s) /\ Sound(s) /\ Unassigned(s) \subseteq s.order /\ Vars(s) \subseteq Nat
  BY Types DEF Decidable, Sound
<1>2. Unassigned(s) \subseteq o
  BY <1>1, SelectionIs
<1>3. u = [s EXCEPT !.order = o, !.model = m]
  OBVIOUS
<1> HIDE DEF o, m
<1>4. Models(s, u, o)
  BY <1>1, <1>3, ModelsIs
<1>5. Notes(s, u) /\ u.watches = s.watches /\ u.order = o /\ u.qhead = s.qhead /\ u.ok = s.ok
  BY <1>4 DEF Models
<1>6. Sound(u) /\ \A h, late : Watching(s, h, late) => Watching(u, h, late)
  BY <1>1, <1>2, <1>5, NotesKeep
<1>7. Decidable(u)
  <2>1. SameTrail(s, u)
    BY <1>5 DEF Notes
  <2>2. NAssigns(u) = NAssigns(s) /\ DecisionLevel(u) = DecisionLevel(s) /\ u.rootLevel = s.rootLevel
    BY <2>1, SameTrailIs DEF SameTrail
  <2>3. QED
    BY <1>5, <1>6, <2>2 DEF Decidable
<1>8. QED
  BY <1>7, DecidableReturns

-----------------------------------------------------------------------------
(***************************************************************************)
(* The session.                                                            *)
(***************************************************************************)
\* What a caller adds and asks is fit to be added and asked.
LEMMA InputsFit ==
  /\ Problems \subseteq Seq(Callable) /\ Questions \subseteq Askable /\ <<>> \in Askable
  /\ MaxSolves \in Nat
<1>1. ASSUME NEW P \in Problems PROVE P \in Seq(Callable)
  <2>1. P \in Seq(SUBSET Nat) /\ \A C \in Range(P) : IsFiniteSet(C)
    BY SolverAssumption
  <2>2. \A i \in 1 .. Len(P) : P[i] \in Callable
    BY <2>1 DEF Callable, Range
  <2>3. QED
    BY <2>1, <2>2
<1>2. Questions \subseteq Askable
  BY SolverAssumption DEF Askable
<1>3. <<>> \in Askable
  BY DEF Askable, Range
<1>4. QED
  BY <1>1, <1>2, <1>3, SolverAssumption

\* The fields of a call that has ended, and of one that begins.
LEMMA NoCallIs ==
  /\ DOMAIN NoCall = CallFields /\ NoCall.assumps = <<>>
  /\ \A q : LET c == [NoCall EXCEPT !.assumps = q] IN DOMAIN c = CallFields /\ c.assumps = q
  /\ \A q, b : LET c == [NoCall EXCEPT !.assumps = q, !.budget = b] IN DOMAIN c = CallFields /\ c.assumps = q
BY DEF NoCall, CallFields

\* The fields of the calls that search writes.
LEMMA CallIs ==
  ASSUME NEW c, DOMAIN c = CallFields
  PROVE  /\ \A n, l : LET d == [c EXCEPT !.nofLearnts = n, !.limit = l] IN DOMAIN d = CallFields /\ d.assumps = c.assumps
         /\ \A f : LET d == [c EXCEPT !.confl = f] IN DOMAIN d = CallFields /\ d.assumps = c.assumps /\ d.confl = f
         /\ \A n, f : LET d == [c EXCEPT !.conflictC = n, !.confl = f] IN DOMAIN d = CallFields /\ d.assumps = c.assumps
         /\ \A n, m, l : LET d == [c EXCEPT !.starts = n, !.conflictC = m, !.limit = l] IN DOMAIN d = CallFields /\ d.assumps = c.assumps
BY DEF CallFields

\* The first states meet the invariant.
LEMMA InitIInv == Init => IInv
<1>1. SUFFICES ASSUME Init PROVE IInv
  OBVIOUS
<1>2. sv = EmptySolver /\ todo \in Problems /\ pc = "idle" /\ call = NoCall /\ said = "none" /\ solves = 0
  BY <1>1 DEF Init
<1>3. Sound(sv) /\ DecisionLevel(sv) = 0 /\ Watching(sv, sv.qhead, {})
  BY <1>2, EmptySound
<1>4. Fits(sv, pc, call.assumps, call.confl)
  BY <1>2, <1>3 DEF Fits, Searching
<1>5. todo \in Seq(Callable) /\ solves \in 0 .. MaxSolves
  BY <1>2, InputsFit
<1>6. DOMAIN call = CallFields /\ call.assumps \in Askable
  BY <1>2, NoCallIs, InputsFit
<1>7. QED
  BY <1>2, <1>4, <1>5, <1>6 DEF IInv, Points

\* A solver that is idle is ready for more variables, clauses and questions.
IdleSolver(s) == Sound(s) /\ DecisionLevel(s) = 0 /\ (s.ok => Watching(s, s.qhead, {}))

\* What idle means, in both directions.
LEMMA IdleFits ==
  ASSUME NEW s, NEW q, NEW c
  PROVE  Fits(s, "idle", q, c) <=> IdleSolver(s)
BY DEF Fits, IdleSolver, Searching

\* A new variable.
LEMMA CreateVarKeeps == ASSUME IInv, CreateVar PROVE IInv'
<1>1. pc = "idle" /\ sv' = NewVar(sv) /\ said' = "none" /\ UNCHANGED <<todo, given, pc, call, solves>>
  BY DEF CreateVar, Idle
<1>2. IdleSolver(sv)
  BY <1>1, IdleFits DEF IInv
<1> DEFINE t == sv'
<1>3. t = NewVar(sv)
  BY <1>1
<1> HIDE DEF t
<1>4. /\ Sound(t) /\ (\A h, late : Watching(sv, h, late) => Watching(t, h, late))
      /\ DecisionLevel(t) = DecisionLevel(sv) /\ t.ok = sv.ok /\ t.qhead = sv.qhead
  BY <1>2, <1>3, NewVarKeeps DEF IdleSolver
<1>5. IdleSolver(t)
  BY <1>2, <1>4 DEF IdleSolver
<1>6. Fits(t, "idle", call.assumps, call.confl)
  BY <1>5, IdleFits
<1>7. QED
  BY <1>1, <1>6 DEF IInv, t

\* A new clause.
LEMMA AddClauseKeeps == ASSUME IInv, AddClause PROVE IInv'
<1>1. /\ pc = "idle" /\ todo # <<>> /\ Needed(todo[1]) \subseteq Vars(sv)
      /\ sv' = NewClause(sv, todo[1]) /\ todo' = Tail(todo) /\ said' = "none" /\ UNCHANGED <<pc, call, solves>>
  BY DEF AddClause, Idle
<1>2. IdleSolver(sv)
  BY <1>1, IdleFits DEF IInv
<1> DEFINE t == sv'
           C == todo[1]
<1>3. t = NewClause(sv, C) /\ Needed(C) \subseteq Vars(sv)
  BY <1>1
<1>4. C \in Callable /\ Tail(todo) \in Seq(Callable)
  <2>1. todo \in Seq(Callable)
    BY DEF IInv
  <2>2. QED
    BY <1>1, <2>1
<1> HIDE DEF t, C
<1>5. Offered(sv, C)
  <2>1. C \in SUBSET Nat /\ IsFiniteSet(C)
    BY <1>4 DEF Callable
  <2>2. \A p \in C : Var(p) \in Vars(sv)
    BY <1>3 DEF Needed
  <2>3. QED
    BY <2>1, <2>2 DEF Offered, LitsOf
<1>6. Sound(t) /\ DecisionLevel(t) = 0 /\ (t.ok => Watching(t, t.qhead, {}))
  BY <1>2, <1>3, <1>5, NewClauseKeeps DEF IdleSolver
<1>7. Fits(t, "idle", call.assumps, call.confl)
  BY <1>6, IdleFits DEF IdleSolver
<1>8. QED
  BY <1>1, <1>4, <1>7 DEF IInv, t

\* A question.
LEMMA AskKeeps == ASSUME IInv, NEW q \in Askable, NEW budget, Ask(q, budget) PROVE IInv'
<1>1. /\ pc = "idle" /\ solves < MaxSolves /\ (\A p \in Range(q) : Var(p) \in Vars(sv)) /\ pc' = "enter"
      /\ said' = "none" /\ call' = [NoCall EXCEPT !.assumps = q, !.budget = budget] /\ solves' = solves + 1
      /\ UNCHANGED <<sv, todo>>
  BY DEF Ask, Idle
<1>2. IdleSolver(sv)
  BY <1>1, IdleFits DEF IInv
<1>3. DOMAIN call' = CallFields /\ call'.assumps = q
  BY <1>1, NoCallIs
<1>4. Range(q) \subseteq LitsOf(sv)
  <2>1. q \in Seq(Nat)
    BY DEF Askable
  <2>2. Range(q) \subseteq Nat
    BY <2>1, RangeIn
  <2>3. QED
    BY <1>1, <2>2 DEF LitsOf
<1>5. Fits(sv, "enter", q, call'.confl)
  BY <1>2, <1>4 DEF Fits, IdleSolver, Searching
<1>6. solves' \in 0 .. MaxSolves
  BY <1>1, InputsFit DEF IInv
<1>7. Fits(sv', pc', call'.assumps, call'.confl)
  BY <1>1, <1>3, <1>5
<1>8. QED
  BY <1>1, <1>3, <1>6, <1>7 DEF IInv, Points

\* Another problem.
LEMMA ResetKeeps == ASSUME IInv, Reset PROVE IInv'
<1>1. sv' = EmptySolver /\ todo' \in Problems /\ call' = NoCall /\ said' = "none" /\ solves' = 0 /\ pc' = pc /\ pc = "idle"
  BY DEF Reset, Idle
<1> DEFINE t == sv'
<1>2. t = EmptySolver
  BY <1>1
<1> HIDE DEF t
<1>3. Sound(t) /\ DecisionLevel(t) = 0 /\ Watching(t, t.qhead, {})
  BY <1>2, EmptySound
<1>4. Fits(t, "idle", call'.assumps, call'.confl)
  BY <1>3, IdleFits DEF IdleSolver
<1>5. DOMAIN call' = CallFields /\ call'.assumps \in Askable
  BY <1>1, NoCallIs, InputsFit
<1>6. todo' \in Seq(Callable) /\ solves' \in 0 .. MaxSolves
  BY <1>1, InputsFit
<1>7. QED
  BY <1>1, <1>4, <1>5, <1>6 DEF IInv, Points, t

\* Every return of solve.
LEMMA FinishKeeps ==
  ASSUME IInv, NEW s, Sound(s), DecisionLevel(s) > 0 => Watching(s, LevelStart(s), {}),
         DecisionLevel(s) = 0 => (s.ok => Watching(s, s.qhead, {})),
         NEW answer \in {"sat", "unsat", "unknown"}, Finish(s, answer)
  PROVE  IInv'
<1>1. /\ sv' = CancelUntil(s, 0) /\ pc' = "idle" /\ said' = answer
      /\ call' = [NoCall EXCEPT !.assumps = call.assumps] /\ UNCHANGED <<todo, given, solves>>
  BY DEF Finish
<1> DEFINE t == sv'
<1>2. t = CancelUntil(s, 0)
  BY <1>1
<1> HIDE DEF t
<1>3. Fits(t, "idle", call'.assumps, call'.confl)
  BY <1>2, ReturnFits
<1>4. DOMAIN call' = CallFields /\ call'.assumps = call.assumps
  BY <1>1, NoCallIs
<1>5. QED
  BY <1>1, <1>3, <1>4 DEF IInv, Points, t

\* A return of solve from a decision point.
LEMMA FinishDecided ==
  ASSUME IInv, NEW s, Decidable(s), NEW answer \in {"sat", "unsat", "unknown"}, Finish(s, answer)
  PROVE  IInv'
<1>1. Watching(s, LevelStart(s), {})
  BY DecidableStarts
<1>2. Sound(s) /\ Watching(s, s.qhead, {})
  BY DEF Decidable
<1>3. QED
  BY <1>1, <1>2, FinishKeeps

\* The decision points.
LEMMA DecideIs ==
  ASSUME IInv, pc = "decide"
  PROVE  Decidable(sv)
BY DEF IInv, Fits, Decidable, Searching

\* Propagation, which a conflict may end.
LEMMA PropagateKeeps == ASSUME IInv, PropagateAll PROVE IInv'
<1> DEFINE r == Propagate(sv)
           t == r.s
           e == r.confl
<1>1. /\ pc = "propagate" /\ sv' = t /\ call' = [call EXCEPT !.confl = e]
      /\ pc' = (IF e = NoClause THEN "decide" ELSE "conflict") /\ UNCHANGED <<todo, given, said, solves>>
  BY DEF PropagateAll, AfterPropagate
<1>2. Sound(sv) /\ sv.ok /\ Watching(sv, sv.qhead, {}) /\ DecisionLevel(sv) >= sv.rootLevel
  BY <1>1 DEF IInv, Fits, Searching
<1>3. r = Propagate(sv) /\ t = r.s /\ e = r.confl
  OBVIOUS
<1> HIDE DEF r
<1>4. Propagated(sv, r.s, r.confl)
  BY <1>2, <1>3, PropagateEnds
<1>5. Propagated(sv, t, e)
  BY <1>4
<1> HIDE DEF t, e
<1>6. Sound(t) /\ Extends(sv, t) /\ t.qhead = NAssigns(t)
  BY <1>5 DEF Propagated
<1>7. DecisionLevel(t) = DecisionLevel(sv) /\ t.rootLevel = sv.rootLevel
  BY <1>6, ExtendsIs DEF Extends
<1>8. DOMAIN call' = CallFields /\ call'.assumps = call.assumps /\ call'.confl = e
  BY <1>1, CallIs DEF IInv
<1>9. Fits(t, pc', call'.assumps, call'.confl)
  <2>1. CASE e = NoClause
    <3>1. t.ok = sv.ok /\ Watching(t, t.qhead, {}) /\ pc' = "decide"
      BY <1>1, <1>5, <2>1 DEF Propagated
    <3>2. QED
      BY <1>2, <1>6, <1>7, <3>1 DEF Fits
  <2>2. CASE e # NoClause
    <3>1. t.ok = (sv.ok /\ DecisionLevel(sv) > 0) /\ InConflict(t, e) /\ pc' = "conflict"
      BY <1>1, <1>5, <2>2 DEF Propagated
    <3>2. t.ok = (DecisionLevel(t) > 0)
      BY <1>2, <1>7, <3>1
    <3>3. QED
      BY <1>2, <1>6, <1>7, <1>8, <3>1, <3>2 DEF Fits
  <2>3. QED
    BY <2>1, <2>2
<1>10. pc' \in Points
  BY <1>1 DEF Points
<1>11. QED
  BY <1>1, <1>8, <1>9, <1>10 DEF IInv, t

\* What a conflict is.
LEMMA ConflictFits ==
  ASSUME IInv, pc = "conflict"
  PROVE  Sound(sv) /\ InConflict(sv, call.confl) /\ sv.ok = (DecisionLevel(sv) > 0) /\ DecisionLevel(sv) >= sv.rootLevel
BY DEF IInv, Fits, Searching

\* A conflict at the root.
LEMMA RefuteKeeps == ASSUME IInv, Refute PROVE IInv'
<1> DEFINE u == [sv EXCEPT !.conflicts = @ + 1]
           F == {"conflicts"}
           confl == call.confl
           b == FALSE
           t == AnalyzeFinal(u, confl, b)
<1>1. pc = "conflict" /\ Finish(AnalyzeFinal(u, confl, FALSE), "unsat")
  BY DEF Refute
<1>2. Sound(sv) /\ InConflict(sv, confl) /\ sv.ok = (DecisionLevel(sv) > 0)
  BY <1>1, ConflictFits
<1>3. Coherent(sv) /\ Shaped(sv) /\ DecisionLevel(sv) \in Nat
  BY <1>2, Types DEF Sound
<1>4. SameBut(sv, u, F) /\ F \subseteq {"model", "conflict", "conflictId", "conflicts"}
  BY <1>3, ConflictsIs
<1>5. Finish(t, "unsat")
  BY <1>1
<1>6. t = AnalyzeFinal(u, confl, b)
  OBVIOUS
<1> HIDE DEF u, F, b, t, confl
<1>7. Remarked(sv, u)
  BY <1>3, <1>4, SameButRemarks
<1>8. Coherent(u) /\ Sound(u) /\ InConflict(u, confl) /\ DecisionLevel(u) = DecisionLevel(sv) /\ u.ok = sv.ok
  BY <1>2, <1>3, <1>7, RemarkedKeeps
<1>9. Remarked(u, t)
  BY <1>6, <1>8, AnalyzeFinalRemarks
<1>10. Sound(t) /\ InConflict(t, confl) /\ DecisionLevel(t) = DecisionLevel(u) /\ t.ok = u.ok
  BY <1>8, <1>9, RemarkedKeeps
<1>11. Watching(t, LevelStart(t), {})
  BY <1>10 DEF InConflict
<1>12. DecisionLevel(t) = 0 => ~t.ok
  <2>1. SUFFICES ASSUME DecisionLevel(t) = 0 PROVE ~t.ok
    OBVIOUS
  <2>2. ~(DecisionLevel(sv) > 0)
    BY <1>3, <1>8, <1>10, <2>1
  <2>3. t.ok = (DecisionLevel(sv) > 0)
    BY <1>2, <1>8, <1>10, Zenon
  <2>4. QED
    BY <2>2, <2>3, Zenon
<1>13. QED
  BY <1>5, <1>10, <1>11, <1>12, FinishKeeps

\* A conflict above the root.
LEMMA LearnKeeps == ASSUME IInv, Learn PROVE IInv'
<1> DEFINE confl == call.confl
           t == Backjump(Analyze([sv EXCEPT !.conflicts = @ + 1], confl))
<1>1. /\ pc = "conflict" /\ DecisionLevel(sv) > sv.rootLevel /\ sv' = t /\ pc' = "propagate"
      /\ call' = [call EXCEPT !.conflictC = @ + 1, !.confl = NoClause] /\ UNCHANGED <<todo, given, said, solves>>
  BY DEF Learn
<1>2. Sound(sv) /\ InConflict(sv, confl) /\ sv.ok = (DecisionLevel(sv) > 0)
  BY <1>1, ConflictFits
<1>3. t = Backjump(Analyze([sv EXCEPT !.conflicts = @ + 1], confl))
  OBVIOUS
<1> HIDE DEF t, confl
<1>4. Resumes(sv, t)
  BY <1>1, <1>2, <1>3, LearnResumes
<1>5. DecisionLevel(sv) \in Nat /\ sv.rootLevel \in Nat
  BY <1>2, Types DEF Sound
<1>6. sv.ok
  <2>1. DecisionLevel(sv) > 0
    BY <1>1, <1>5
  <2>2. sv.ok = (DecisionLevel(sv) > 0)
    BY <1>2
  <2>3. QED
    BY <2>1, <2>2, Zenon
<1>7. Fits(t, "propagate", call'.assumps, call'.confl)
  BY <1>4, <1>6 DEF Fits, Resumes
<1>8. DOMAIN call' = CallFields /\ call'.assumps = call.assumps
  <2>1. DOMAIN call = CallFields
    BY DEF IInv
  <2> DEFINE n == call.conflictC + 1
  <2>2. call' = [call EXCEPT !.conflictC = n, !.confl = NoClause]
    BY <1>1
  <2> HIDE DEF n
  <2>3. QED
    BY <2>1, <2>2, CallIs
<1>9. Fits(sv', pc', call'.assumps, call'.confl)
  BY <1>1, <1>7
<1>10. pc' \in Points
  BY <1>1 DEF Points
<1>11. QED
  BY <1>1, <1>8, <1>9, <1>10 DEF IInv

\* A restart.
LEMMA RestartKeeps == ASSUME IInv, Restart PROVE IInv'
<1> DEFINE l == sv.rootLevel
           u == CancelUntil(sv, l)
           m == <<>>
           t == [u EXCEPT !.model = m]
           F == {"model"}
<1>1. /\ pc = "decide" /\ sv' = t /\ pc' = "propagate" /\ UNCHANGED <<todo, given, said, solves>>
      /\ call' = [call EXCEPT !.starts = Min({@ + 1, MaxStarts}), !.conflictC = 0,
                            !.limit = SearchLimit(sv, call.starts + 1, call.budget)]
  BY DEF Restart
<1>2. Decidable(sv)
  BY <1>1, DecideIs
<1>3. Sound(sv) /\ sv.ok /\ Watching(sv, sv.qhead, {}) /\ Watching(sv, LevelStart(sv), {}) /\ DecisionLevel(sv) >= l
  BY <1>2, DecidableStarts DEF Decidable
<1>4. l \in Nat /\ DecisionLevel(sv) \in Nat /\ l = sv.rootLevel
  BY <1>3, Types DEF Sound
<1>5. u = CancelUntil(sv, l) /\ t = [u EXCEPT !.model = m]
  OBVIOUS
<1> HIDE DEF u, m, t, l
<1>6. l = 0 \/ l >= sv.rootLevel
  BY <1>4
<1>7. /\ Sound(u) /\ (u.ok => Watching(u, u.qhead, {})) /\ u.ok = sv.ok /\ u.rootLevel = sv.rootLevel
      /\ DecisionLevel(u) = IF DecisionLevel(sv) > l THEN l ELSE DecisionLevel(sv)
  BY <1>3, <1>4, <1>5, <1>6, CancelKeeps
<1>8. DecisionLevel(u) >= u.rootLevel
  BY <1>3, <1>4, <1>7
<1>9. Remarked(u, t)
  <2>1. Coherent(u) /\ Shaped(u)
    BY <1>7, Types DEF Sound
  <2>2. SameBut(u, t, F) /\ F \subseteq {"model", "conflict", "conflictId", "conflicts"}
    BY <1>5, <2>1, ModelIs
  <2> HIDE DEF F
  <2>3. QED
    BY <2>1, <2>2, SameButRemarks
<1>10. /\ Sound(t) /\ (\A h, late : Watching(u, h, late) => Watching(t, h, late)) /\ DecisionLevel(t) = DecisionLevel(u)
       /\ t.rootLevel = u.rootLevel /\ t.ok = u.ok /\ t.qhead = u.qhead
  BY <1>7, <1>9, RemarkedKeeps
<1>11. Watching(u, u.qhead, {}) /\ t.ok
  BY <1>3, <1>7, <1>10
<1>12. Watching(t, t.qhead, {})
  BY <1>10, <1>11
<1>13. Fits(t, "propagate", call'.assumps, call'.confl)
  BY <1>8, <1>10, <1>11, <1>12 DEF Fits
<1>14. DOMAIN call' = CallFields /\ call'.assumps = call.assumps
  BY <1>1, CallIs DEF IInv
<1>15. Fits(sv', pc', call'.assumps, call'.confl)
  BY <1>1, <1>13
<1>16. pc' \in Points
  BY <1>1 DEF Points
<1>17. QED
  BY <1>1, <1>14, <1>15, <1>16 DEF IInv

\* The budget is spent.
LEMMA GiveUpKeeps == ASSUME IInv, GiveUp PROVE IInv'
<1>1. pc = "decide" /\ Finish(sv, "unknown")
  BY DEF GiveUp
<1>2. Decidable(sv)
  BY <1>1, DecideIs
<1>3. QED
  BY <1>1, <1>2, FinishDecided

\* A decision.
LEMMA DecideKeeps == ASSUME IInv, Decide PROVE IInv'
<1>1. PICK s \in ToDecide : \E sel \in Selections(s) :
         /\ sel.next >= 0
         /\ sv' = Assume([s EXCEPT !.order = sel.order], Neg(PosLit(sel.next)))
  BY DEF Decide
<1>2. PICK sel \in Selections(s) :
         /\ sel.next >= 0
         /\ sv' = Assume([s EXCEPT !.order = sel.order], Neg(PosLit(sel.next)))
  BY <1>1
<1>3. pc = "decide" /\ pc' = "propagate" /\ UNCHANGED <<todo, given, call, said, solves>>
  BY DEF Decide
<1>4. Decidable(s)
  BY <1>3, DecideIs, ToDecideIs
<1> DEFINE t == sv'
           q == call.assumps
           confl == call.confl
<1>5. t = Assume([s EXCEPT !.order = sel.order], Neg(PosLit(sel.next)))
  BY <1>2
<1> HIDE DEF t, q, confl
<1>6. Fits(t, "propagate", q, confl)
  BY <1>2, <1>4, <1>5, DecisionResumes
<1>7. QED
  BY <1>3, <1>6 DEF IInv, Points, t, q, confl

\* Nothing is left to decide.
LEMMA FindModelKeeps == ASSUME IInv, FindModel PROVE IInv'
<1>1. PICK s \in ToDecide : \E sel \in Selections(s) :
         sel.next < 0 /\ Finish([s EXCEPT !.order = sel.order, !.model = s.assigns], "sat")
  BY DEF FindModel
<1>2. PICK sel \in Selections(s) :
         sel.next < 0 /\ Finish([s EXCEPT !.order = sel.order, !.model = s.assigns], "sat")
  BY <1>1
<1>3. Decidable(s)
  <2>1. pc = "decide"
    BY DEF FindModel
  <2>2. QED
    BY <2>1, DecideIs, ToDecideIs
<1> DEFINE u == [s EXCEPT !.order = sel.order, !.model = s.assigns]
           t == sv'
           q == call'.assumps
           confl == call'.confl
<1>4. t = CancelUntil(u, 0) /\ u = [s EXCEPT !.order = sel.order, !.model = s.assigns]
  BY <1>2 DEF Finish
<1>5. /\ pc' = "idle" /\ said' = "sat"
      /\ call' = [NoCall EXCEPT !.assumps = call.assumps] /\ UNCHANGED <<todo, given, solves>>
  BY <1>2 DEF Finish
<1> HIDE DEF t, u, q, confl
<1>6. Fits(t, "idle", q, confl)
  BY <1>2, <1>3, <1>4, ModelReturns
<1>7. DOMAIN call' = CallFields /\ call'.assumps = call.assumps
  BY <1>5, NoCallIs
<1>8. QED
  BY <1>5, <1>6, <1>7 DEF IInv, Points, t, q, confl

\* solve up to its first search.
LEMMA EnterKeeps == ASSUME IInv, Enter PROVE IInv'
<1>1. pc = "enter" /\ \E due \in BOOLEAN : EnterWith(SimplifyDB(sv, due))
  BY DEF Enter
<1>2. PICK due \in BOOLEAN : EnterWith(SimplifyDB(sv, due))
  BY <1>1
<1> DEFINE s == SimplifyDB(sv, due)
           q == call.assumps
           a == AssumeAll(s, q)
           u == a.s
<1>3. Sound(sv) /\ DecisionLevel(sv) = 0 /\ (sv.ok => Watching(sv, sv.qhead, {})) /\ Range(q) \subseteq LitsOf(sv)
  BY <1>1 DEF IInv, Fits
<1>4. s = SimplifyDB(sv, due) /\ a = AssumeAll(s, q) /\ u = a.s /\ q = call.assumps
  OBVIOUS
<1>5. (~s.ok /\ Finish(s, "unsat")) \/ (s.ok /\ EnterAfter(a))
  BY <1>2 DEF EnterWith
<1> HIDE DEF s, q, a
<1>6. /\ Sound(s) /\ DecisionLevel(s) = 0 /\ LitsOf(s) = LitsOf(sv)
      /\ s.ok => Watching(s, s.qhead, {}) /\ s.qhead = NAssigns(s)
  BY <1>3, <1>4, SimplifyKeeps
<1>7. CASE ~s.ok /\ Finish(s, "unsat")
  BY <1>6, <1>7, FinishKeeps
<1>8. CASE s.ok /\ EnterAfter(a)
  <2>1. q \in Seq(LitsOf(s))
    <3>1. q \in Seq(Nat)
      BY <1>4 DEF IInv, Askable
    <3>2. \A i \in 1 .. Len(q) : q[i] \in LitsOf(s)
      BY <1>3, <1>6, <3>1, RangeIn
    <3>3. QED
      BY <3>1, <3>2
  <2>2. IsTry(a) /\ Tried(s, q, Len(q), a.s, a.failed)
    BY <1>4, <1>6, <1>8, <2>1, AssumptionsTried
  <2>3. /\ Sound(u) /\ u.rootLevel = Len(q)
        /\ IF a.failed THEN DecisionLevel(u) > 0 /\ Watching(u, LevelStart(u), {})
           ELSE DecisionLevel(u) = Len(q) /\ u.ok /\ u.qhead = NAssigns(u) /\ Watching(u, u.qhead, {})
    BY <2>2 DEF Tried
  <2>4. \/ a.failed /\ Finish(u, "unsat")
        \/ ~a.failed /\ Finish(u, "unknown")
        \/ ~a.failed /\ Begin(u)
    BY <1>8 DEF EnterAfter
  <2> HIDE DEF u
  <2>5. CASE a.failed /\ Finish(u, "unsat")
    <3>1. Sound(u) /\ Watching(u, LevelStart(u), {}) /\ DecisionLevel(u) > 0
      BY <2>3, <2>5
    <3>2. DecisionLevel(u) # 0
      BY <3>1
    <3>3. QED
      BY <2>5, <3>1, <3>2, FinishKeeps
  <2>6. ~a.failed => Decidable(u)
    <3>1. Len(q) \in Nat
      BY <2>1
    <3>2. QED
      BY <2>3, <3>1 DEF Decidable
  <2>7. CASE ~a.failed /\ Finish(u, "unknown")
    BY <2>6, <2>7, FinishDecided
  <2>8. CASE ~a.failed /\ Begin(u)
    <3> DEFINE m == <<>>
               t == [u EXCEPT !.model = m]
               F == {"model"}
    <3>1. /\ sv' = t /\ pc' = "propagate" /\ UNCHANGED <<todo, given, said, solves>>
          /\ call' = [call EXCEPT !.nofLearnts = Cardinality(u.clauses) \div LearntShare,
                            !.limit = SearchLimit(u, 0, call.budget)]
      BY <2>8 DEF Begin
    <3>2. t = [u EXCEPT !.model = m]
      OBVIOUS
    <3> HIDE DEF m, t
    <3>3. Sound(u) /\ Watching(u, u.qhead, {}) /\ u.ok /\ DecisionLevel(u) >= u.rootLevel
      BY <2>6, <2>8 DEF Decidable
    <3>4. Coherent(u) /\ Shaped(u)
      BY <3>3, Types DEF Sound
    <3>5. SameBut(u, t, F) /\ F \subseteq {"model", "conflict", "conflictId", "conflicts"}
      BY <3>2, <3>4, ModelIs
    <3> HIDE DEF F
    <3>6. Remarked(u, t)
      BY <3>4, <3>5, SameButRemarks
    <3>7. /\ Sound(t) /\ (\A h, late : Watching(u, h, late) => Watching(t, h, late)) /\ DecisionLevel(t) = DecisionLevel(u)
          /\ t.rootLevel = u.rootLevel /\ t.ok = u.ok /\ t.qhead = u.qhead
      BY <3>3, <3>6, RemarkedKeeps
    <3>8. Fits(t, "propagate", call'.assumps, call'.confl)
      BY <3>3, <3>7 DEF Fits
    <3>9. DOMAIN call' = CallFields /\ call'.assumps = call.assumps
      BY <3>1, CallIs DEF IInv
    <3>10. Fits(sv', pc', call'.assumps, call'.confl)
      BY <3>1, <3>8
    <3>11. pc' \in Points
      BY <3>1 DEF Points
    <3>12. QED
      BY <3>1, <3>9, <3>10, <3>11 DEF IInv
  <2>9. QED
    BY <2>4, <2>5, <2>7, <2>8
<1>9. QED
  BY <1>5, <1>7, <1>8

\* Every step keeps the invariant.
LEMMA NextIInv == ASSUME IInv, [Next]_vars PROVE IInv'
<1>1. CASE CreateVar
  BY <1>1, CreateVarKeeps
<1>2. CASE AddClause
  BY <1>2, AddClauseKeeps
<1>3. CASE Solve
  <2>1. PICK q \in Questions : Ask(q, NoBudget)
    BY <1>3 DEF Solve
  <2>2. q \in Askable
    BY InputsFit
  <2>3. QED
    BY <2>1, <2>2, AskKeeps
<1>4. CASE SolveLimited
  <2> DEFINE none == <<>>
  <2>1. PICK budget \in Budgets : Ask(none, budget)
    BY <1>4 DEF SolveLimited
  <2>2. none \in Askable
    BY InputsFit
  <2> HIDE DEF none
  <2>3. QED
    BY <2>1, <2>2, AskKeeps
<1>5. CASE Reset
  BY <1>5, ResetKeeps
<1>6. CASE Search
  <2>1. CASE Enter
    BY <2>1, EnterKeeps
  <2>2. CASE PropagateAll
    BY <2>2, PropagateKeeps
  <2>3. CASE Refute
    BY <2>3, RefuteKeeps
  <2>4. CASE Learn
    BY <2>4, LearnKeeps
  <2>5. CASE Restart
    BY <2>5, RestartKeeps
  <2>6. CASE GiveUp
    BY <2>6, GiveUpKeeps
  <2>7. CASE Decide
    BY <2>7, DecideKeeps
  <2>8. CASE FindModel
    BY <2>8, FindModelKeeps
  <2>9. QED
    BY <1>6, <2>1, <2>2, <2>3, <2>4, <2>5, <2>6, <2>7, <2>8 DEF Search
<1>7. CASE UNCHANGED vars
  BY <1>7 DEF vars, IInv
<1>8. QED
  BY <1>1, <1>2, <1>3, <1>4, <1>5, <1>6, <1>7 DEF Next

\* The invariant holds of every run.
LEMMA IInvHolds == Spec => []IInv
<1>1. Init => IInv
  BY InitIInv
<1>2. IInv /\ [Next]_vars => IInv'
  BY NextIInv
<1>3. QED
  BY <1>1, <1>2, PTL DEF Spec

-----------------------------------------------------------------------------
(***************************************************************************)
(* The properties the runs check.                                          *)
(***************************************************************************)
\* Every place of the trail holds a variable of its own, and every variable
\* that has a value is there.
LEMMA TrailHolds ==
  ASSUME NEW s, Coherent(s)
  PROVE  IsInjective(s.trail) /\ {Var(p) : p \in Range(s.trail)} = Vars(s) \ Unassigned(s)
<1>1. /\ s.trail \in Seq(LitsOf(s)) /\ NAssigns(s) \in Nat /\ DOMAIN s.trail = 1 .. NAssigns(s)
      /\ s.trailPos \in [Vars(s) -> Int]
  BY Types
<1>2. \A i \in 1 .. NAssigns(s) : s.trail[i] \in LitsOf(s) /\ Value(s, s.trail[i]) = True /\ At(s, s.trail[i]) = i - 1
  BY <1>1 DEF Coherent, Trailed
<1>3. IsInjective(s.trail)
  <2>1. ASSUME NEW i \in DOMAIN s.trail, NEW j \in DOMAIN s.trail, s.trail[i] = s.trail[j] PROVE i = j
    <3>1. At(s, s.trail[i]) = i - 1 /\ At(s, s.trail[j]) = j - 1 /\ i \in Nat /\ j \in Nat
      BY <1>1, <1>2
    <3>2. QED
      BY <2>1, <3>1
  <2>2. QED
    BY <2>1 DEF IsInjective
<1>4. ASSUME NEW p \in Range(s.trail) PROVE Var(p) \in Vars(s) \ Unassigned(s)
  <2>1. PICK i \in 1 .. NAssigns(s) : p = s.trail[i]
    BY <1>1 DEF Range
  <2>2. p \in LitsOf(s) /\ Value(s, p) = True
    BY <1>2, <2>1
  <2>3. Value(s, p) # Undef
    BY <2>2 DEF True, Undef
  <2>4. Var(p) \in Vars(s) /\ s.assigns[Var(p)] # Undef
    BY <2>2, <2>3, Types, Values
  <2>5. QED
    BY <2>4 DEF Unassigned
<1>5. ASSUME NEW v \in Vars(s) \ Unassigned(s) PROVE \E p \in Range(s.trail) : Var(p) = v
  <2>1. s.assigns[v] # Undef
    BY DEF Unassigned
  <2>2. s.trailPos[v] \in 0 .. NAssigns(s) - 1 /\ Var(s.trail[s.trailPos[v] + 1]) = v
    BY <2>1 DEF Coherent, Trailed
  <2> DEFINE i == s.trailPos[v] + 1
  <2>3. i \in 1 .. NAssigns(s)
    BY <1>1, <2>2
  <2>4. s.trail[i] \in Range(s.trail)
    BY <1>1, <2>3, RangeIn
  <2>5. QED
    BY <2>2, <2>4
<1>6. QED
  BY <1>3, <1>4, <1>5

(* Every field of the solver, the call and the session has its type.       *)
LEMMA InvTypeOK == IInv => TypeOK
<1>1. SUFFICES ASSUME IInv PROVE TypeOK
  OBVIOUS
<1>2. pc \in Points /\ said \in {"none", "sat", "unsat", "unknown"} /\ solves \in 0 .. MaxSolves
  BY <1>1 DEF IInv
<1>3. Coherent(sv) /\ (pc = "idle" => DecisionLevel(sv) = 0) /\ (pc \in Searching => DecisionLevel(sv) >= sv.rootLevel)
  BY <1>1 DEF IInv, Fits, Sound
<1>4. /\ sv.assigns \in [Vars(sv) -> {True, False, Undef}]
      /\ DOMAIN sv.reason = Vars(sv) /\ DOMAIN sv.level = Vars(sv) /\ DOMAIN sv.unitId = Vars(sv)
  BY <1>3 DEF Coherent, Typed
<1>5. sv.clauses \cup sv.learnts = DOMAIN sv.lits /\ sv.clauses \cap sv.learnts = {}
  BY <1>3 DEF Coherent, Stored
<1>6. sv.qhead \in 0 .. NAssigns(sv)
  <2>1. sv.qhead \in Nat /\ NAssigns(sv) \in Nat /\ sv.qhead <= NAssigns(sv)
    BY <1>3, Types, Starts
  <2>2. QED
    BY <2>1
<1>7. IsInjective(sv.trail) /\ {Var(p) : p \in Range(sv.trail)} = Vars(sv) \ Unassigned(sv)
  BY <1>3, TrailHolds
<1>8. QED
  BY <1>2, <1>3, <1>4, <1>5, <1>6, <1>7 DEF TypeOK, Idle, Searching

(* An unassigned variable can always be selected.                          *)
LEMMA InvNoVariableLost == IInv => NoVariableLost
BY DEF IInv, Fits, Sound, NoVariableLost

(* Reasons are clauses that imply what they are reasons of.                *)
LEMMA InvReasonsAlive == IInv => ReasonsAlive
<1>1. SUFFICES ASSUME IInv PROVE ReasonsAlive
  OBVIOUS
<1>2. Coherent(sv)
  BY <1>1 DEF IInv, Fits, Sound
<1>3. ASSUME NEW v \in Vars(sv), sv.reason[v] # NoClause
      PROVE  /\ sv.reason[v] \in DOMAIN sv.lits
             /\ LET ls == sv.lits[sv.reason[v]] IN
                  /\ Var(ls[1]) = v /\ Value(sv, ls[1]) = True
                  /\ \A q \in Range(AllButOne(ls)) : IsFalse(sv, q) /\ sv.trailPos[Var(q)] < sv.trailPos[v]
  <2> DEFINE c == sv.reason[v]
             ls == sv.lits[c]
  <2>1. c \in DOMAIN sv.lits /\ Implies(sv, ls, v)
    BY <1>2, <1>3, ReasonIs
  <2> HIDE DEF c
  <2>2. ls \in Seq(LitsOf(sv)) /\ Len(ls) >= 1
    BY <1>2, <2>1, LitsOfClause
  <2> HIDE DEF ls
  <2>3. Range(AllButOne(ls)) = {ls[i] : i \in 2 .. Len(ls)}
    BY <2>2, Rest
  <2>4. Var(ls[1]) = v /\ Value(sv, ls[1]) = True /\ \A i \in 2 .. Len(ls) : IsFalse(sv, ls[i]) /\ At(sv, ls[i]) < sv.trailPos[v]
    BY <2>1 DEF Implies
  <2>5. \A q \in Range(AllButOne(ls)) : IsFalse(sv, q) /\ sv.trailPos[Var(q)] < sv.trailPos[v]
    BY <2>3, <2>4 DEF At
  <2>6. QED
    BY <2>1, <2>4, <2>5 DEF c, ls
<1>4. QED
  BY <1>3 DEF ReasonsAlive

\* Of a clause that is not satisfied neither watch is false once all is
\* propagated.
LEMMA WatchesLeft ==
  ASSUME NEW s, Decidable(s), NEW c \in DOMAIN s.lits, ~Satisfied(s, c), NEW i \in {1, 2}
  PROVE  ~IsFalse(s, s.lits[c][i])
<1>1. Coherent(s) /\ s.qhead = NAssigns(s) /\ Awake(s, c, s.qhead, {})
  BY DEF Decidable, Sound, Watching
<1>2. SUFFICES ASSUME IsFalse(s, s.lits[c][i]) PROVE FALSE
  OBVIOUS
<1> DEFINE q == s.lits[c][i]
           p == s.lits[c][3 - i]
<1>3. /\ q \in LitsOf(s) /\ p \in LitsOf(s) /\ p \in Range(s.lits[c])
  <2>1. /\ DOMAIN s.lits[c] = 1 .. Len(s.lits[c]) /\ Len(s.lits[c]) \in Nat /\ Len(s.lits[c]) >= 2
        /\ s.lits[c][1] \in LitsOf(s) /\ s.lits[c][2] \in LitsOf(s)
    BY <1>1, LitsOfClause
  <2>2. 3 - i \in {1, 2} /\ 3 - i \in DOMAIN s.lits[c]
    BY <2>1
  <2>3. QED
    BY <2>1, <2>2 DEF Range
<1>4. At(s, q) < s.qhead
  <2>1. Value(s, q) # Undef
    BY <1>1, <1>2, <1>3, Types, Values DEF IsFalse
  <2> HIDE DEF q
  <2>2. At(s, q) \in 0 .. NAssigns(s) - 1 /\ NAssigns(s) \in Nat
    BY <1>1, <1>3, <2>1, OnTrail, Types
  <2>3. QED
    BY <1>1, <2>2
<1>5. Guards(s, p, q)
  BY <1>1, <1>2, <1>4 DEF Awake
<1>6. Value(s, p) = True
  BY <1>5 DEF Guards
<1>7. QED
  BY <1>3, <1>6 DEF Satisfied

(* No clause is false or unit when propagate has returned.                 *)
LEMMA InvPropagationComplete == IInv => PropagationComplete
<1>1. SUFFICES ASSUME IInv, pc = "decide", NEW c \in DOMAIN sv.lits, ~Satisfied(sv, c)
               PROVE  Cardinality({p \in Range(sv.lits[c]) : ~IsFalse(sv, p)}) >= 2
  BY DEF PropagationComplete
<1>2. Decidable(sv)
  BY <1>1, DecideIs
<1>3. Coherent(sv)
  BY <1>2 DEF Decidable, Sound
<1> DEFINE ls == sv.lits[c]
           W == {p \in Range(ls) : ~IsFalse(sv, p)}
<1>4. /\ ls \in Seq(LitsOf(sv)) /\ Len(ls) \in Nat /\ Len(ls) >= 2 /\ DOMAIN ls = 1 .. Len(ls)
      /\ Var(ls[1]) # Var(ls[2])
  BY <1>3, LitsOfClause
<1>5. ~IsFalse(sv, ls[1]) /\ ~IsFalse(sv, ls[2])
  BY <1>1, <1>2, WatchesLeft
<1> HIDE DEF ls
<1> DEFINE x == ls[1]
           y == ls[2]
<1>6. x \in W /\ y \in W /\ x # y
  BY <1>4, <1>5 DEF Range
<1>7. IsFiniteSet(W)
  <2>1. IsFiniteSet(Range(ls))
    <3>1. IsFiniteSet(1 .. Len(ls))
      BY <1>4, FS_Interval
    <3>2. ls \in Surjection(1 .. Len(ls), Range(ls))
      <4>1. ls \in Seq(Range(ls))
        BY <1>4, SeqOfRange
      <4>2. ls \in [1 .. Len(ls) -> Range(ls)]
        BY <4>1
      <4>3. \A p \in Range(ls) : \E i \in 1 .. Len(ls) : ls[i] = p
        BY <1>4 DEF Range
      <4>4. QED
        BY <4>2, <4>3 DEF Surjection
    <3>3. QED
      BY <3>1, <3>2, FS_Surjection
  <2>2. W \subseteq Range(ls)
    OBVIOUS
  <2>3. QED
    BY <2>1, <2>2, FS_Subset
<1> HIDE DEF W, x, y
<1>8. Cardinality(W) >= 2
  <2>1. {x, y} \subseteq W
    BY <1>6
  <2>2. Cardinality({x, y}) <= Cardinality(W)
    BY <1>7, <2>1, FS_Subset
  <2>3. Cardinality({x, y}) = 2
    <3>1. IsFiniteSet({x}) /\ Cardinality({x}) = 1
      BY FS_Singleton
    <3>2. Cardinality({x} \cup {y}) = 2
      BY <1>6, <3>1, FS_AddElement
    <3>3. {x} \cup {y} = {x, y}
      OBVIOUS
    <3>4. QED
      BY <3>2, <3>3
  <2>4. Cardinality(W) \in Nat
    BY <1>7, FS_CardinalityType
  <2>5. QED
    BY <2>2, <2>3, <2>4
<1>9. QED
  BY <1>8 DEF W, ls

\* What simplifyDB has seen settled is of level 0.
LEMMA SettledAtRoot ==
  ASSUME NEW s, Coherent(s), NEW v \in Vars(s), Settled(s, v)
  PROVE  s.assigns[v] # Undef /\ s.level[v] = 0
<1>1. s.assigns[v] # Undef /\ s.trailPos[v] < s.simpAssigns
  BY DEF Settled
<1>2. s.level[v] \in 0 .. DecisionLevel(s)
  BY <1>1 DEF Coherent, Levelled, LevelFits
<1>3. /\ DecisionLevel(s) \in Nat /\ s.trailPos[v] \in Int /\ s.simpAssigns \in Nat /\ s.level[v] \in Nat
      /\ \A i \in 1 .. DecisionLevel(s) : s.trailLim[i] \in Nat /\ s.simpAssigns <= s.trailLim[i]
  BY <1>2, Types, Starts
<1>4. SUFFICES ASSUME s.level[v] >= 1 PROVE FALSE
  BY <1>1, <1>3
<1> DEFINE k == 1
<1>5. k \in 1 .. DecisionLevel(s) /\ s.level[v] >= k
  BY <1>2, <1>3, <1>4
<1> HIDE DEF k
<1>6. s.trailPos[v] >= s.trailLim[k]
  BY <1>1, <1>5, FromLevel
<1>7. s.trailLim[k] \in Nat /\ s.simpAssigns <= s.trailLim[k]
  BY <1>3, <1>5
<1>8. QED
  BY <1>1, <1>3, <1>6, <1>7

\* Both watches of a fixed clause are of settled variables.
LEMMA FixedIs ==
  ASSUME NEW s, Coherent(s), NEW c \in DOMAIN s.lits, Fixed(s, c), NEW i \in {1, 2}
  PROVE  Settled(s, Var(s.lits[c][i]))
<1>1. Locked(s, c) /\ Settled(s, Var(s.lits[c][1]))
  BY DEF Fixed
<1>2. SUFFICES ASSUME i = 2 PROVE Settled(s, Var(s.lits[c][2]))
  BY <1>1
<1> DEFINE p == s.lits[c][1]
           q == s.lits[c][2]
           v == Var(p)
<1>3. p \in LitsOf(s) /\ q \in LitsOf(s) /\ Len(s.lits[c]) \in Nat /\ Len(s.lits[c]) >= 2
  BY LitsOfClause
<1>4. IsFalse(s, q) /\ At(s, q) < s.trailPos[v]
  <2>1. Implies(s, s.lits[c], v)
    BY <1>1, LockedIs
  <2>2. 2 \in 2 .. Len(s.lits[c])
    BY <1>3
  <2>3. QED
    BY <2>1, <2>2 DEF Implies
<1>5. s.trailPos[v] < s.simpAssigns
  BY <1>1 DEF Settled
<1> HIDE DEF p, q, v
<1>6. Value(s, q) # Undef
  BY <1>4 DEF IsFalse, False, Undef
<1>7. s.assigns[Var(q)] # Undef
  BY <1>3, <1>6, OnTrail
<1>8. At(s, q) < s.simpAssigns
  <2>1. Var(p) \in Vars(s) /\ At(s, q) \in Nat /\ s.simpAssigns \in Nat
    BY <1>3, <1>6, Types, OnTrail
  <2>2. s.trailPos[v] \in Int
    BY <1>3, Types DEF v
  <2>3. QED
    BY <1>4, <1>5, <2>1, <2>2
<1>9. QED
  BY <1>7, <1>8 DEF Settled, At, q

(* A clause is once in the list of each of its two watches.                *)
LEMMA InvWatchesIntact == IInv => WatchesIntact
<1>1. SUFFICES ASSUME IInv PROVE WatchesIntact
  OBVIOUS
<1>2. Coherent(sv) /\ Lists(sv, sv.watches) /\ Covers(sv, Places(sv.watches))
  BY <1>1 DEF IInv, Fits, Sound, Listed
<1>3. /\ DOMAIN sv.watches = LitsOf(sv)
      /\ \A p \in LitsOf(sv) : sv.watches[p] \in Seq(Nat) /\ Places(sv.watches)[p] = Range(sv.watches[p])
  BY <1>2 DEF Lists, Places
<1>4. ASSUME NEW c \in DOMAIN sv.lits, NEW i \in {1, 2}
      PROVE  LET p  == sv.lits[c][i]
                 ws == sv.watches[Neg(p)]
             IN  \/ Cardinality({k \in DOMAIN ws : ws[k] = c}) = 1
                 \/ ws = <<>> /\ Value(sv, p) # Undef /\ sv.level[Var(p)] = 0
  <2> DEFINE p  == sv.lits[c][i]
             ws == sv.watches[Neg(p)]
  <2>1. p \in LitsOf(sv)
    BY <1>2, LitsOfClause
  <2>2. Neg(p) \in LitsOf(sv) /\ Var(Neg(p)) = Var(p) /\ Var(p) \in Vars(sv)
    BY <1>2, <2>1, Types
  <2>3. ws \in Seq(Nat) /\ Places(sv.watches)[Neg(p)] = Range(ws)
    BY <1>3, <2>2
  <2>4. CASE Fixed(sv, c)
    <3>1. Settled(sv, Var(p))
      BY <1>2, <2>4, FixedIs
    <3>2. Range(ws) = {}
      BY <1>2, <2>2, <2>3, <3>1 DEF Covers
    <3> HIDE DEF ws
    <3>3. ws = <<>>
      BY <2>3, <3>2, NoMembers
    <3>4. sv.assigns[Var(p)] # Undef /\ sv.level[Var(p)] = 0
      BY <1>2, <2>2, <3>1, SettledAtRoot
    <3>5. Value(sv, p) # Undef
      <4> HIDE DEF p
      <4>1. sv.assigns[Var(p)] \in {True, False, Undef}
        BY <1>2, <2>2, Types
      <4>2. QED
        BY <3>4, <4>1 DEF Value, True, False, Undef
    <3>6. QED
      BY <3>3, <3>4, <3>5 DEF ws
  <2>5. CASE ~Fixed(sv, c)
    <3>1. c \in Places(sv.watches)[Neg(p)]
      BY <1>2, <2>5 DEF Covers
    <3>2. \A j, k \in DOMAIN ws : ws[j] = ws[k] => j = k
      BY <1>2, <2>2 DEF Lists
    <3> HIDE DEF ws
    <3>3. PICK k \in DOMAIN ws : ws[k] = c
      BY <2>3, <3>1 DEF Range
    <3>4. {j \in DOMAIN ws : ws[j] = c} = {k}
      BY <3>2, <3>3
    <3>5. Cardinality({k}) = 1
      BY FS_Singleton
    <3>6. QED
      BY <3>4, <3>5 DEF ws
  <2>6. QED
    BY <2>4, <2>5
<1>5. ASSUME NEW p \in DOMAIN sv.watches, NEW c \in Range(sv.watches[p])
      PROVE  c \in DOMAIN sv.lits /\ Neg(p) \in {sv.lits[c][1], sv.lits[c][2]}
  <2>1. p \in LitsOf(sv) /\ c \in Places(sv.watches)[p]
    BY <1>3
  <2>2. QED
    BY <1>2, <2>1 DEF Covers
<1>6. QED
  BY <1>4, <1>5 DEF WatchesIntact

-----------------------------------------------------------------------------
(* For all problems, questions and budgets and every choice of the         *)
(* heuristics, the fields of the solver (Solver.h) keep their types, the   *)
(* trail holds each assigned variable once and nothing else, and between   *)
(* calls of solve no level is open.                                        *)
THEOREM TypeCorrect == Spec => []TypeOK
BY IInvHolds, InvTypeOK, PTL

(* A variable without a value is on the heap of select, whatever search,   *)
(* cancelUntil and the random picks did before: an empty heap means that   *)
(* every variable has a value.                                             *)
THEOREM VariablesKept == Spec => []NoVariableLost
BY IInvHolds, InvNoVariableLost, PTL

(* reduceDB and simplifyDB free no clause that is the reason of a value,   *)
(* and propagate leaves the literal a reason implies in front of it.       *)
THEOREM ReasonsKept == Spec => []ReasonsAlive
BY IInvHolds, InvReasonsAlive, PTL

(* propagate looks at a clause only when one of its two watches becomes    *)
(* false; nevertheless no clause is false or unit when it returns without  *)
(* a conflict, after any backjumps, restarts, deletions and calls.         *)
THEOREM PropagationMissesNothing == Spec => []PropagationComplete
BY IInvHolds, InvPropagationComplete, PTL

(* A clause is once in the list of each literal it watches, and the lists  *)
(* that simplifyDB cleared are those of settled variables only, so that    *)
(* removeWatch never runs past the end of a list.                          *)
THEOREM WatchesKept == Spec => []WatchesIntact
BY IInvHolds, InvWatchesIntact, PTL
=============================================================================
