---------------------------- MODULE ItpMgrProofs ----------------------------
(***************************************************************************)
(* Proofs about ItpMgr, for every proof the solver may have written, every *)
(* number of variables and every way to mark the clauses: as long as the   *)
(* log is made of resolutions (ProofExact), what getItp builds separates   *)
(* the onset from the offset and what getUNSATCore reads is refuted by     *)
(* itself.                                                                 *)
(***************************************************************************)
EXTENDS ItpMgr, Induction

Lits(c) == sv.log[c].lits
Numbers == 1 .. LastId(sv)
Literals == {p \in Nat : Var(p) \in Vars(sv)}
Used == UsedClauses(sv)
Group(v) == VarGroup(sv, isClauseOn, v)
OnSide == Conj(sv, OnRoots)
OffSide == Conj(sv, Roots(sv) \ OnRoots)
OffRootVars == OffVars(sv, isClauseOn)

-----------------------------------------------------------------------------
(***************************************************************************)
(* Literals and their gates.                                               *)
(***************************************************************************)

(* A literal and its negation are literals of one variable, of which an     *)
(* assignment makes exactly one true.                                       *)
LEMMA Complement ==
  ASSUME NEW p \in Literals
  PROVE  /\ Neg(p) \in Literals /\ Var(Neg(p)) = Var(p) /\ Neg(p) # p
         /\ \A a \in Inputs(sv) : a \in LitGate(sv, Neg(p)) <=> a \notin LitGate(sv, p)
<1>1. p \in Nat /\ Sign(p) \in {0, 1}
  BY DEF Literals, Sign
<1>2. Neg(p) \in Nat /\ Var(Neg(p)) = Var(p) /\ Neg(p) # p
  BY <1>1 DEF Neg, Sign, Var
<1>3. Sign(Neg(p)) # Sign(p) /\ Sign(Neg(p)) \in {0, 1}
  BY <1>1 DEF Neg, Sign
<1>4. ASSUME NEW a \in Inputs(sv)
      PROVE  a \in LitGate(sv, Neg(p)) <=> a \notin LitGate(sv, p)
  BY <1>1, <1>2, <1>3 DEF LitGate, NotGate, Const1, Net
<1>5. QED
  BY <1>1, <1>2, <1>4 DEF Literals

(* Whether a literal is true depends on its variable only.                  *)
LEMMA LitIsOfVar ==
  ASSUME NEW p, NEW a \in Inputs(sv), NEW b \in Inputs(sv), NEW vs,
         Var(p) \in vs, a \cap vs = b \cap vs, a \in LitGate(sv, p)
  PROVE  b \in LitGate(sv, p)
<1>1. Var(p) \in a <=> Var(p) \in b
  OBVIOUS
<1>2. QED
  BY <1>1 DEF LitGate, NotGate, Const1, Net

(* The pivot of a resolution is a literal of the variable resolved on.      *)
LEMMA PivotOf ==
  ASSUME NEW C \in SUBSET Literals, NEW D, NEW x \in Nat, NEW p \in Pivots(C, D, x)
  PROVE  p \in C /\ Neg(p) \in D /\ p \in Literals /\ Var(p) = x
<1>1. p \in C /\ Neg(p) \in D /\ p \in {PosLit(x), Neg(PosLit(x))}
  BY DEF Pivots
<1>2. PosLit(x) \in Nat /\ Var(PosLit(x)) = x /\ Sign(PosLit(x)) = 0
  BY DEF PosLit, Var, Sign
<1>3. Var(Neg(PosLit(x))) = x
  BY <1>2 DEF Neg, Var, PosLit
<1>4. QED
  BY <1>1, <1>2, <1>3

\* A resolvent is taken on some pivot of its variable.
LEMMA ResolventIs ==
  ASSUME NEW C, NEW D, NEW x, Pivots(C, D, x) # {}
  PROVE  \E p \in Pivots(C, D, x) : Resolvent(C, D, x) = ResolventOn(C, D, p)
BY DEF Resolvent

-----------------------------------------------------------------------------
(***************************************************************************)
(* The steps of a chain, as equations.                                     *)
(***************************************************************************)
LEMMA ResolventSteps ==
  ASSUME NEW ch, Len(ch.vars) \in Nat
  PROVE  /\ Resolvents(sv.log, ch)[0] = sv.log[ch.ids[1]].lits
         /\ \A k \in 1 .. Len(ch.vars) :
              Resolvents(sv.log, ch)[k] =
                Resolvent(Resolvents(sv.log, ch)[k - 1], sv.log[ch.ids[k + 1]].lits, ch.vars[k])
<1> DEFINE n == Len(ch.vars)
           Eq(f, m) == f = [k \in 0 .. m |-> IF k = 0 THEN sv.log[ch.ids[1]].lits
                              ELSE Resolvent(f[k - 1], sv.log[ch.ids[k + 1]].lits, ch.vars[k])]
           S == {m \in Nat : \E f : Eq(f, m)}
<1>1. 0 \in S
  <2> DEFINE f == [k \in 0 .. 0 |-> sv.log[ch.ids[1]].lits]
  <2>1. Eq(f, 0)
    OBVIOUS
  <2>2. QED
    BY <2>1
<1>2. ASSUME NEW m \in Nat, m \in S PROVE m + 1 \in S
  <2>1. PICK f : Eq(f, m)
    BY <1>2
  <2> DEFINE g == [k \in 0 .. m + 1 |-> IF k <= m THEN f[k]
                     ELSE Resolvent(f[m], sv.log[ch.ids[(m + 1) + 1]].lits, ch.vars[m + 1])]
  <2>2. ASSUME NEW k \in 0 .. m + 1
        PROVE  g[k] = IF k = 0 THEN sv.log[ch.ids[1]].lits
                      ELSE Resolvent(g[k - 1], sv.log[ch.ids[k + 1]].lits, ch.vars[k])
    <3>1. CASE k <= m
      <4>1. k \in 0 .. m /\ g[k] = f[k]
        BY <3>1
      <4>2. CASE k = 0
        BY <2>1, <4>1, <4>2
      <4>3. CASE k # 0
        <5>1. k - 1 \in 0 .. m /\ g[k - 1] = f[k - 1]
          BY <4>1, <4>3
        <5>2. QED
          BY <2>1, <4>1, <4>3, <5>1
      <4>4. QED
        BY <4>2, <4>3
    <3>2. CASE k = m + 1
      <4>1. k - 1 = m /\ m \in 0 .. m + 1 /\ m <= m /\ ~(k <= m) /\ k # 0
        BY <3>2
      <4>2. g[k - 1] = f[m]
        BY <4>1
      <4>3. g[k] = Resolvent(f[m], sv.log[ch.ids[(m + 1) + 1]].lits, ch.vars[m + 1])
        BY <4>1
      <4>4. QED
        BY <3>2, <4>1, <4>2, <4>3
    <3>3. QED
      BY <3>1, <3>2
  <2>3. Eq(g, m + 1)
    <3>1. g = [k \in 0 .. m + 1 |-> g[k]]
      OBVIOUS
    <3> HIDE DEF g
    <3>2. QED
      BY <2>2, <3>1, Zenon
  <2> HIDE DEF g, Eq
  <2>4. \E h : Eq(h, m + 1)
    BY <2>3
  <2>5. QED
    BY <2>4
<1>3. n \in S
  <2> HIDE DEF S
  <2>1. QED
    BY <1>1, <1>2, AllNumbers
<1>4. Eq(Resolvents(sv.log, ch), n)
  <2>1. \E f : Eq(f, n)
    BY <1>3
  <2>2. QED
    BY <2>1, Zenon DEF Resolvents
<1>5. QED
  BY <1>4

\* The equations of the running interpolants of a chain.
LEMMA ChainSteps ==
  ASSUME NEW of, NEW ch, Len(ch.vars) \in Nat
  PROVE  /\ ChainItps(sv, isClauseOn, of, ch)[0] = of[ch.ids[1]]
         /\ \A k \in 1 .. Len(ch.vars) :
              ChainItps(sv, isClauseOn, of, ch)[k] =
                Join(sv, isClauseOn, ChainItps(sv, isClauseOn, of, ch)[k - 1],
                     of[ch.ids[k + 1]], ch.vars[k])
<1> DEFINE n == Len(ch.vars)
           Eq(f, m) == f = [k \in 0 .. m |-> IF k = 0 THEN of[ch.ids[1]]
                              ELSE Join(sv, isClauseOn, f[k - 1], of[ch.ids[k + 1]], ch.vars[k])]
           S == {m \in Nat : \E f : Eq(f, m)}
<1>1. 0 \in S
  <2> DEFINE f == [k \in 0 .. 0 |-> of[ch.ids[1]]]
  <2>1. Eq(f, 0)
    OBVIOUS
  <2>2. QED
    BY <2>1
<1>2. ASSUME NEW m \in Nat, m \in S PROVE m + 1 \in S
  <2>1. PICK f : Eq(f, m)
    BY <1>2
  <2> DEFINE g == [k \in 0 .. m + 1 |-> IF k <= m THEN f[k]
                     ELSE Join(sv, isClauseOn, f[m], of[ch.ids[(m + 1) + 1]], ch.vars[m + 1])]
  <2>2. ASSUME NEW k \in 0 .. m + 1
        PROVE  g[k] = IF k = 0 THEN of[ch.ids[1]]
                      ELSE Join(sv, isClauseOn, g[k - 1], of[ch.ids[k + 1]], ch.vars[k])
    <3>1. CASE k <= m
      <4>1. k \in 0 .. m /\ g[k] = f[k]
        BY <3>1
      <4>2. CASE k = 0
        BY <2>1, <4>1, <4>2
      <4>3. CASE k # 0
        <5>1. k - 1 \in 0 .. m /\ g[k - 1] = f[k - 1]
          BY <4>1, <4>3
        <5>2. QED
          BY <2>1, <4>1, <4>3, <5>1
      <4>4. QED
        BY <4>2, <4>3
    <3>2. CASE k = m + 1
      <4>1. k - 1 = m /\ m \in 0 .. m + 1 /\ m <= m /\ ~(k <= m) /\ k # 0
        BY <3>2
      <4>2. g[k - 1] = f[m]
        BY <4>1
      <4>3. g[k] = Join(sv, isClauseOn, f[m], of[ch.ids[(m + 1) + 1]], ch.vars[m + 1])
        BY <4>1
      <4>4. QED
        BY <3>2, <4>1, <4>2, <4>3
    <3>3. QED
      BY <3>1, <3>2
  <2>3. Eq(g, m + 1)
    <3>1. g = [k \in 0 .. m + 1 |-> g[k]]
      OBVIOUS
    <3> HIDE DEF g
    <3>2. QED
      BY <2>2, <3>1, Zenon
  <2> HIDE DEF g, Eq
  <2>4. \E h : Eq(h, m + 1)
    BY <2>3
  <2>5. QED
    BY <2>4
<1>3. n \in S
  <2> HIDE DEF S
  <2>1. QED
    BY <1>1, <1>2, AllNumbers
<1>4. Eq(ChainItps(sv, isClauseOn, of, ch), n)
  <2>1. \E f : Eq(f, n)
    BY <1>3
  <2>2. QED
    BY <2>1, Zenon DEF ChainItps
<1>5. QED
  BY <1>4

\* The equations of the backward walk that collects the clauses used.
LEMMA QueueSteps ==
  ASSUME LastId(sv) \in Nat
  PROVE  /\ Queued(sv)[0] = {LastId(sv)}
         /\ \A k \in 1 .. LastId(sv) :
              Queued(sv)[k] = TakeFrom(sv, Queued(sv)[k - 1], LastId(sv) + 1 - k)
<1> DEFINE n == LastId(sv)
           Eq(f, m) == f = [k \in 0 .. m |-> IF k = 0 THEN {LastId(sv)}
                              ELSE TakeFrom(sv, f[k - 1], LastId(sv) + 1 - k)]
           S == {m \in Nat : \E f : Eq(f, m)}
<1>1. 0 \in S
  <2> DEFINE f == [k \in 0 .. 0 |-> {LastId(sv)}]
  <2>1. Eq(f, 0)
    OBVIOUS
  <2>2. QED
    BY <2>1
<1>2. ASSUME NEW m \in Nat, m \in S PROVE m + 1 \in S
  <2>1. PICK f : Eq(f, m)
    BY <1>2
  <2> DEFINE g == [k \in 0 .. m + 1 |-> IF k <= m THEN f[k]
                     ELSE TakeFrom(sv, f[m], LastId(sv) + 1 - (m + 1))]
  <2>2. ASSUME NEW k \in 0 .. m + 1
        PROVE  g[k] = IF k = 0 THEN {LastId(sv)}
                      ELSE TakeFrom(sv, g[k - 1], LastId(sv) + 1 - k)
    <3>1. CASE k <= m
      <4>1. k \in 0 .. m /\ g[k] = f[k] /\ (k # 0 => g[k - 1] = f[k - 1])
        BY <3>1
      <4>2. f[k] = IF k = 0 THEN {LastId(sv)} ELSE TakeFrom(sv, f[k - 1], LastId(sv) + 1 - k)
        BY <2>1, <4>1, Zenon
      <4>3. QED
        BY <4>1, <4>2, Zenon
    <3>2. CASE k = m + 1
      <4>1. k - 1 = m /\ m \in 0 .. m + 1 /\ m <= m /\ ~(k <= m) /\ k # 0
        BY <3>2
      <4>2. g[k - 1] = f[m]
        BY <4>1
      <4>3. g[k] = TakeFrom(sv, f[m], LastId(sv) + 1 - (m + 1))
        BY <4>1
      <4>4. QED
        BY <3>2, <4>1, <4>2, <4>3
    <3>3. QED
      BY <3>1, <3>2
  <2>3. Eq(g, m + 1)
    <3>1. g = [k \in 0 .. m + 1 |-> g[k]]
      OBVIOUS
    <3> HIDE DEF g
    <3>2. QED
      BY <2>2, <3>1, Zenon
  <2> HIDE DEF g, Eq
  <2>4. \E h : Eq(h, m + 1)
    BY <2>3
  <2>5. QED
    BY <2>4
<1>3. n \in S
  <2> HIDE DEF S
  <2>1. QED
    BY <1>1, <1>2, AllNumbers
<1>4. Eq(Queued(sv), n)
  <2>1. \E f : Eq(f, n)
    BY <1>3
  <2>2. QED
    BY <2>1, Zenon DEF Queued
<1>5. 0 \in 0 .. n /\ \A k \in 1 .. n : k \in 0 .. n /\ k # 0
  OBVIOUS
<1>6. QED
  BY <1>4, <1>5, Zenon

\* The equations of the table of interpolants, filled in numerical order.
LEMMA TableSteps ==
  ASSUME NEW cs, LastId(sv) \in Nat
  PROVE  /\ ItpsOf(sv, isClauseOn, cs)[0] = [c \in {} |-> {}]
         /\ \A k \in 1 .. LastId(sv) :
              ItpsOf(sv, isClauseOn, cs)[k] =
                FileItp(sv, isClauseOn, cs, ItpsOf(sv, isClauseOn, cs)[k - 1], k)
<1> DEFINE n == LastId(sv)
           Eq(f, m) == f = [k \in 0 .. m |-> IF k = 0 THEN [c \in {} |-> {}]
                              ELSE FileItp(sv, isClauseOn, cs, f[k - 1], k)]
           S == {m \in Nat : \E f : Eq(f, m)}
<1>1. 0 \in S
  <2> DEFINE f == [k \in 0 .. 0 |-> [c \in {} |-> {}]]
  <2>1. Eq(f, 0)
    OBVIOUS
  <2>2. QED
    BY <2>1
<1>2. ASSUME NEW m \in Nat, m \in S PROVE m + 1 \in S
  <2>1. PICK f : Eq(f, m)
    BY <1>2
  <2> DEFINE g == [k \in 0 .. m + 1 |-> IF k <= m THEN f[k]
                     ELSE FileItp(sv, isClauseOn, cs, f[m], m + 1)]
  <2>2. ASSUME NEW k \in 0 .. m + 1
        PROVE  g[k] = IF k = 0 THEN [c \in {} |-> {}]
                      ELSE FileItp(sv, isClauseOn, cs, g[k - 1], k)
    <3>1. CASE k <= m
      <4>1. k \in 0 .. m /\ g[k] = f[k]
        BY <3>1
      <4>2. CASE k = 0
        BY <2>1, <4>1, <4>2
      <4>3. CASE k # 0
        <5>1. k - 1 \in 0 .. m /\ g[k - 1] = f[k - 1]
          BY <4>1, <4>3
        <5>2. QED
          BY <2>1, <4>1, <4>3, <5>1
      <4>4. QED
        BY <4>2, <4>3
    <3>2. CASE k = m + 1
      <4>1. k - 1 = m /\ m \in 0 .. m + 1 /\ m <= m /\ ~(k <= m) /\ k # 0
        BY <3>2
      <4>2. g[k - 1] = f[m]
        BY <4>1
      <4>3. g[k] = FileItp(sv, isClauseOn, cs, f[m], m + 1)
        BY <4>1
      <4>4. QED
        BY <3>2, <4>1, <4>2, <4>3
    <3>3. QED
      BY <3>1, <3>2
  <2>3. Eq(g, m + 1)
    <3>1. g = [k \in 0 .. m + 1 |-> g[k]]
      OBVIOUS
    <3> HIDE DEF g
    <3>2. QED
      BY <2>2, <3>1, Zenon
  <2> HIDE DEF g, Eq
  <2>4. \E h : Eq(h, m + 1)
    BY <2>3
  <2>5. QED
    BY <2>4
<1>3. n \in S
  <2> HIDE DEF S
  <2>1. QED
    BY <1>1, <1>2, AllNumbers
<1>4. Eq(ItpsOf(sv, isClauseOn, cs), n)
  <2>1. \E f : Eq(f, n)
    BY <1>3
  <2>2. QED
    BY <2>1, Zenon DEF ItpsOf
<1>5. QED
  BY <1>4

-----------------------------------------------------------------------------
(***************************************************************************)
(* What ProofExact says of the log, entry by entry.                        *)
(***************************************************************************)
LEMMA MembersOfSeq ==
  ASSUME NEW T, NEW q \in Seq(T)
  PROVE  Range(q) \subseteq T
<1>1. \A i \in DOMAIN q : q[i] \in T
  OBVIOUS
<1>2. QED
  BY <1>1 DEF Range

\* The log of the proof is a sequence: clause numbers are its positions.
LEMMA LogIsNumbered ==
  ASSUME ProofExact
  PROVE  LastId(sv) \in Nat /\ DOMAIN sv.log = Numbers
<1>1. sv.log \in Seq(Range(sv.log))
  BY DEF ProofExact
<1>2. QED
  BY <1>1 DEF LastId, Numbers

\* What ProofExact says of the entry of an input clause.
LEMMA RootEntry ==
  ASSUME ProofExact, NEW c \in Roots(sv)
  PROVE  c \in Numbers /\ Range(sv.log[c].ids) = {} /\ Lits(c) \subseteq Literals
<1>1. c \in DOMAIN sv.log /\ sv.log[c].root
  BY DEF Roots
<1>2. IsRoot(sv, c)
  BY <1>1 DEF ProofExact
<1>3. QED
  BY <1>1, <1>2, LogIsNumbered DEF IsRoot, Lits, Literals

\* What ProofExact says of the entry of a derived clause.
LEMMA ChainEntry ==
  ASSUME ProofExact, NEW c \in Numbers, c \notin Roots(sv)
  PROVE  /\ Len(sv.log[c].vars) \in Nat
         /\ DOMAIN sv.log[c].ids = 1 .. Len(sv.log[c].vars) + 1
         /\ Range(sv.log[c].ids) \subseteq 1 .. c - 1
         /\ Lits(c) = Resolvents(sv.log, sv.log[c])[Len(sv.log[c].vars)]
         /\ \A k \in 1 .. Len(sv.log[c].vars) :
              /\ sv.log[c].vars[k] \in Nat
              /\ Pivots(Resolvents(sv.log, sv.log[c])[k - 1],
                        Lits(sv.log[c].ids[k + 1]), sv.log[c].vars[k]) # {}
<1> DEFINE xs == sv.log[c].vars
           ids == sv.log[c].ids
<1>1. c \in DOMAIN sv.log /\ ~sv.log[c].root
  BY LogIsNumbered DEF Roots
<1>2. IsChain(sv, c)
  BY <1>1 DEF ProofExact
<1>3. xs \in Seq(Nat) /\ ids \in Seq(1 .. c - 1) /\ Len(ids) = Len(xs) + 1
  BY <1>2 DEF IsChain
<1>4. Len(xs) \in Nat /\ DOMAIN xs = 1 .. Len(xs) /\ DOMAIN ids = 1 .. Len(xs) + 1
  BY <1>3
<1>5. Range(ids) \subseteq 1 .. c - 1
  BY <1>3, MembersOfSeq
<1>6. \A k \in 1 .. Len(xs) : xs[k] \in Nat
  BY <1>3, <1>4
<1>7. \A k \in DOMAIN xs :
        Pivots(Resolvents(sv.log, sv.log[c])[k - 1], Lits(ids[k + 1]), xs[k]) # {}
  BY <1>2 DEF IsChain, Lits
<1>8. Lits(c) = Resolvents(sv.log, sv.log[c])[Len(xs)]
  BY <1>2 DEF IsChain, Lits
<1>9. QED
  BY <1>4, <1>5, <1>6, <1>7, <1>8

(***************************************************************************)
(* The clauses used are closed under being derived from.                   *)
(***************************************************************************)
Followed(k) ==
  /\ Queued(sv)[k] \subseteq Numbers /\ LastId(sv) \in Queued(sv)[k]
  /\ \A c \in Queued(sv)[k] : c > LastId(sv) - k => Range(sv.log[c].ids) \subseteq Queued(sv)[k]

\* A clause is derived from clauses with smaller numbers.
LEMMA IdsAreEarlier ==
  ASSUME ProofExact, NEW c \in Numbers
  PROVE  Range(sv.log[c].ids) \subseteq 1 .. c - 1
<1>1. CASE c \in Roots(sv)
  BY <1>1, RootEntry
<1>2. CASE c \notin Roots(sv)
  BY <1>2, ChainEntry
<1>3. QED
  BY <1>1, <1>2

\* The clauses used: they reach back from the last clause, all parents included.
LEMMA UsedClosed ==
  ASSUME ProofExact, LastId(sv) >= 1
  PROVE  /\ Used \subseteq Numbers /\ LastId(sv) \in Used
         /\ \A c \in Used : Range(sv.log[c].ids) \subseteq Used
<1> DEFINE n == LastId(sv)
           S == {k \in Nat : k <= n => Followed(k)}
<1>1. n \in Nat /\ n >= 1
  BY LogIsNumbered
<1>2. 0 \in S
  <2>1. Queued(sv)[0] = {n}
    BY <1>1, QueueSteps
  <2>2. QED
    BY <1>1, <2>1 DEF Followed, Numbers
<1>3. ASSUME NEW k \in Nat, k \in S PROVE k + 1 \in S
  <2>1. SUFFICES ASSUME k + 1 <= n PROVE Followed(k + 1)
    OBVIOUS
  <2>2. Followed(k) /\ k + 1 \in 1 .. n /\ (k + 1) - 1 = k
    BY <1>1, <1>3, <2>1
  <2> DEFINE q == Queued(sv)[k]
             t == Queued(sv)[k + 1]
             c0 == n - k
  <2>3. t = TakeFrom(sv, q, n + 1 - (k + 1)) /\ n + 1 - (k + 1) = c0 /\ c0 \in Numbers
    <3>1. n + 1 - (k + 1) = c0 /\ c0 \in Numbers
      BY <1>1, <2>2 DEF Numbers
    <3>2. QED
      BY <1>1, <2>2, <3>1, QueueSteps
  <2>4. t = IF c0 \in q THEN q \cup Range(sv.log[c0].ids) ELSE q
    BY <2>3 DEF TakeFrom
  <2>5. Range(sv.log[c0].ids) \subseteq 1 .. c0 - 1
    BY <2>3, IdsAreEarlier
  <2>6. t \subseteq Numbers /\ n \in t
    <3>1. 1 .. c0 - 1 \subseteq Numbers
      BY <1>1, <2>2 DEF Numbers
    <3>2. q \subseteq Numbers /\ n \in q
      BY <2>2 DEF Followed
    <3> HIDE DEF q, t, c0, n
    <3>3. QED
      BY <2>4, <2>5, <3>1, <3>2
  <2>7. ASSUME NEW c \in t, c > n - (k + 1) PROVE Range(sv.log[c].ids) \subseteq t
    <3>1. c \in Int /\ c >= c0
      BY <1>1, <2>6, <2>7 DEF Numbers
    <3>2. c \in q
      <4>1. c \notin 1 .. c0 - 1
        BY <1>1, <3>1
      <4> HIDE DEF q, t, c0
      <4>2. QED
        BY <2>4, <2>5, <2>7, <4>1
    <3>3. CASE c = c0
      <4> HIDE DEF q, t, c0
      <4>1. QED
        BY <2>4, <3>2, <3>3
    <3>4. CASE c # c0
      <4>1. c > n - k
        BY <1>1, <3>1, <3>4
      <4>2. Range(sv.log[c].ids) \subseteq q
        BY <2>2, <3>2, <4>1 DEF Followed
      <4> HIDE DEF q, t, c0
      <4>3. QED
        BY <2>4, <4>2
    <3>5. QED
      BY <3>3, <3>4
  <2>8. QED
    BY <2>6, <2>7 DEF Followed
<1>4. Followed(n)
  <2>1. n \in S
    <3> HIDE DEF S
    <3>1. QED
      BY <1>1, <1>2, <1>3, AllNumbers
  <2>2. QED
    BY <1>1, <2>1
<1>5. Used = Queued(sv)[n]
  BY DEF Used, UsedClauses
<1>6. QED
  <2>1. Used \subseteq Numbers /\ n \in Used
    BY <1>4, <1>5 DEF Followed
  <2>2. ASSUME NEW c \in Used PROVE c > n - n
    BY <1>1, <2>1 DEF Numbers
  <2>3. QED
    BY <1>4, <1>5, <2>1, <2>2 DEF Followed

-----------------------------------------------------------------------------
(***************************************************************************)
(* The argument.  g is a partial interpolant of the clause C: where the    *)
(* onset holds, g does, unless a literal of C local to the onset is true;  *)
(* where the offset and g hold, a literal of C over the variables of the   *)
(* offset is true; and g is about the common variables.  McMillan's rules  *)
(* give every clause of the proof one, and that of the empty clause is an  *)
(* interpolant.                                                            *)
(***************************************************************************)
OnTrue(a, C) == \E p \in C : Group(Var(p)) = "LOCAL_ON" /\ a \in LitGate(sv, p)
OffTrue(a, C) == \E p \in C : Var(p) \in OffRootVars /\ a \in LitGate(sv, p)

Partial(C, g) ==
  /\ C \subseteq Literals /\ g \subseteq Inputs(sv)
  /\ \A a \in OnSide : a \in g \/ OnTrue(a, C)
  /\ \A a \in OffSide : a \in g => OffTrue(a, C)
  /\ DependsOnlyOn(sv, g, CommonVars)

\* Both halves of the formula are conditions on the inputs.
LEMMA SidesAreInputs == OnSide \subseteq Inputs(sv) /\ OffSide \subseteq Inputs(sv)
BY DEF OnSide, OffSide, Conj

(* The four groups.                                                         *)
LEMMA Groups4 ==
  ASSUME NEW v
  PROVE  /\ Group(v) = "LOCAL_ON" <=> v \in OnVars(sv, isClauseOn) /\ v \notin OffRootVars
         /\ Group(v) = "COMMON" <=> v \in CommonVars
         /\ CommonVars \subseteq OffRootVars
BY DEF Group, VarGroup, OffRootVars, CommonVars

(* OR and AND of gates, as cirMgr builds them.                              *)
LEMMA JoinIs ==
  ASSUME NEW g \in SUBSET Inputs(sv), NEW h \in SUBSET Inputs(sv), NEW x
  PROVE  Join(sv, isClauseOn, g, h, x) = IF Group(x) = "LOCAL_ON" THEN g \cup h ELSE g \cap h
<1>1. OrGate(sv, g, h) = g \cup h
  BY DEF OrGate, AndGate, NotGate, Const1
<1>2. QED
  BY <1>1 DEF Join, AndGate, Group

(* A root clause has a partial interpolant: its common literals, or 1.      *)
LEMMA RootPartial ==
  ASSUME ProofExact, NEW c \in Roots(sv)
  PROVE  Partial(Lits(c), RootItp(sv, isClauseOn, c))
<1> DEFINE g == RootItp(sv, isClauseOn, c)
           shared == {p \in Lits(c) : Group(Var(p)) = "COMMON"}
<1>1. Lits(c) \subseteq Literals
  BY RootEntry
<1>2. \A p : LitGate(sv, p) \subseteq Inputs(sv)
  BY DEF LitGate, NotGate, Const1, Net
<1>3. CASE OnClause(sv, isClauseOn, c)
  <2>1. g = UNION {LitGate(sv, p) : p \in shared}
    BY <1>3 DEF RootItp, Group, Lits
  <2>2. \A a : a \in g <=> \E p \in shared : a \in LitGate(sv, p)
    BY <2>1
  <2>3. c \in OnRoots
    BY <1>3 DEF OnRoots
  <2>4. ASSUME NEW a \in OnSide, a \notin g PROVE OnTrue(a, Lits(c))
    <3>1. PICK p \in Lits(c) : a \in LitGate(sv, p)
      BY <2>3 DEF OnSide, Conj, ClauseGate, Lits
    <3>2. Var(p) \in OnVars(sv, isClauseOn)
      BY <1>3 DEF OnVars, Occurs, Lits
    <3>3. Group(Var(p)) # "COMMON"
      BY <2>2, <2>4, <3>1
    <3>4. Group(Var(p)) = "LOCAL_ON"
      BY <3>2, <3>3 DEF Group, VarGroup
    <3>5. QED
      BY <3>1, <3>4 DEF OnTrue
  <2>5. ASSUME NEW a \in OffSide, a \in g PROVE OffTrue(a, Lits(c))
    BY <2>2, <2>5, Groups4 DEF OffTrue
  <2>6. DependsOnlyOn(sv, g, CommonVars)
    <3>1. SUFFICES ASSUME NEW a \in g, NEW b \in Inputs(sv), a \cap CommonVars = b \cap CommonVars
                   PROVE  b \in g
      BY DEF DependsOnlyOn
    <3>2. PICK p \in shared : a \in LitGate(sv, p)
      BY <2>2
    <3>3. a \in Inputs(sv) /\ Var(p) \in CommonVars
      BY <1>2, <3>2, Groups4
    <3>4. b \in LitGate(sv, p)
      BY <3>1, <3>2, <3>3, LitIsOfVar
    <3>5. QED
      BY <2>2, <3>4
  <2>7. g \subseteq Inputs(sv)
    BY <1>2, <2>2
  <2>8. QED
    BY <1>1, <2>4, <2>5, <2>6, <2>7 DEF Partial
<1>4. CASE ~OnClause(sv, isClauseOn, c)
  <2>1. g = Inputs(sv)
    BY <1>4 DEF RootItp, Const1
  <2>2. c \in Roots(sv) \ OnRoots
    BY <1>4 DEF OnRoots
  <2>3. ASSUME NEW a \in OffSide PROVE OffTrue(a, Lits(c))
    <3>1. PICK p \in Lits(c) : a \in LitGate(sv, p)
      BY <2>2 DEF OffSide, Conj, ClauseGate, Lits
    <3>2. Var(p) \in OffRootVars
      BY <1>4 DEF OffRootVars, OffVars, Occurs, Lits
    <3>3. QED
      BY <3>1, <3>2 DEF OffTrue
  <2>4. DependsOnlyOn(sv, g, CommonVars)
    BY <2>1 DEF DependsOnlyOn
  <2>5. QED
    BY <1>1, <2>1, <2>3, <2>4, SidesAreInputs DEF Partial
<1>5. QED
  BY <1>3, <1>4

(* A resolution joins the partial interpolants of its clauses.              *)
LEMMA ResolutionPartial ==
  ASSUME NEW C, NEW D, NEW g, NEW h, NEW x \in Nat, NEW p \in Pivots(C, D, x),
         Partial(C, g), Partial(D, h)
  PROVE  Partial(ResolventOn(C, D, p), Join(sv, isClauseOn, g, h, x))
<1> DEFINE R == ResolventOn(C, D, p)
<1>1. /\ C \in SUBSET Literals /\ D \in SUBSET Literals
      /\ g \in SUBSET Inputs(sv) /\ h \in SUBSET Inputs(sv)
  BY DEF Partial
<1>2. p \in C /\ Neg(p) \in D /\ p \in Literals /\ Var(p) = x /\ Var(Neg(p)) = x
  BY <1>1, PivotOf, Complement
<1>3. \A a \in Inputs(sv) : ~(a \in LitGate(sv, p) /\ a \in LitGate(sv, Neg(p)))
  BY <1>2, Complement
<1>4. /\ \A q \in C : q # p => q \in R
      /\ \A q \in D : q # Neg(p) => q \in R
      /\ R \subseteq Literals
  BY <1>1 DEF ResolventOn
<1>5. /\ \A a \in OnSide : a \in g \/ OnTrue(a, C)
      /\ \A a \in OnSide : a \in h \/ OnTrue(a, D)
      /\ \A a \in OffSide : a \in g => OffTrue(a, C)
      /\ \A a \in OffSide : a \in h => OffTrue(a, D)
      /\ DependsOnlyOn(sv, g, CommonVars) /\ DependsOnlyOn(sv, h, CommonVars)
  BY DEF Partial
<1>6. CASE Group(x) = "LOCAL_ON"
  <2>1. Join(sv, isClauseOn, g, h, x) = g \cup h
    BY <1>1, <1>6, JoinIs
  <2>2. x \notin OffRootVars
    BY <1>6, Groups4
  <2>3. ASSUME NEW a \in OnSide, a \notin g, a \notin h PROVE OnTrue(a, R)
    <3>1. PICK q \in C : Group(Var(q)) = "LOCAL_ON" /\ a \in LitGate(sv, q)
      BY <1>5, <2>3 DEF OnTrue
    <3>2. PICK r \in D : Group(Var(r)) = "LOCAL_ON" /\ a \in LitGate(sv, r)
      BY <1>5, <2>3 DEF OnTrue
    <3>3. q # p \/ r # Neg(p)
      BY <1>3, <3>1, <3>2, SidesAreInputs
    <3>4. QED
      BY <1>4, <3>1, <3>2, <3>3 DEF OnTrue
  <2>4. ASSUME NEW a \in OffSide, a \in g \cup h PROVE OffTrue(a, R)
    <3>1. CASE a \in g
      <4>1. PICK q \in C : Var(q) \in OffRootVars /\ a \in LitGate(sv, q)
        BY <1>5, <3>1 DEF OffTrue
      <4>2. q # p
        BY <1>2, <2>2, <4>1
      <4>3. QED
        BY <1>4, <4>1, <4>2 DEF OffTrue
    <3>2. CASE a \in h
      <4>1. PICK q \in D : Var(q) \in OffRootVars /\ a \in LitGate(sv, q)
        BY <1>5, <3>2 DEF OffTrue
      <4>2. q # Neg(p)
        BY <1>2, <2>2, <4>1
      <4>3. QED
        BY <1>4, <4>1, <4>2 DEF OffTrue
    <3>3. QED
      BY <2>4, <3>1, <3>2
  <2>5. DependsOnlyOn(sv, g \cup h, CommonVars)
    BY <1>5 DEF DependsOnlyOn
  <2> HIDE DEF R
  <2>6. QED
    BY <1>1, <1>4, <2>1, <2>3, <2>4, <2>5 DEF Partial, R
<1>7. CASE Group(x) # "LOCAL_ON"
  <2>1. Join(sv, isClauseOn, g, h, x) = g \cap h
    BY <1>1, <1>7, JoinIs
  <2>2. ASSUME NEW a \in OnSide, a \notin g \cap h PROVE OnTrue(a, R)
    <3>1. CASE a \notin g
      <4>1. PICK q \in C : Group(Var(q)) = "LOCAL_ON" /\ a \in LitGate(sv, q)
        BY <1>5, <3>1 DEF OnTrue
      <4>2. q # p
        BY <1>2, <1>7, <4>1
      <4>3. QED
        BY <1>4, <4>1, <4>2 DEF OnTrue
    <3>2. CASE a \notin h
      <4>1. PICK q \in D : Group(Var(q)) = "LOCAL_ON" /\ a \in LitGate(sv, q)
        BY <1>5, <3>2 DEF OnTrue
      <4>2. q # Neg(p)
        BY <1>2, <1>7, <4>1
      <4>3. QED
        BY <1>4, <4>1, <4>2 DEF OnTrue
    <3>3. QED
      BY <2>2, <3>1, <3>2
  <2>3. ASSUME NEW a \in OffSide, a \in g, a \in h PROVE OffTrue(a, R)
    <3>1. PICK q \in C : Var(q) \in OffRootVars /\ a \in LitGate(sv, q)
      BY <1>5, <2>3 DEF OffTrue
    <3>2. PICK r \in D : Var(r) \in OffRootVars /\ a \in LitGate(sv, r)
      BY <1>5, <2>3 DEF OffTrue
    <3>3. q # p \/ r # Neg(p)
      BY <1>3, <3>1, <3>2, SidesAreInputs
    <3>4. QED
      BY <1>4, <3>1, <3>2, <3>3 DEF OffTrue
  <2>4. DependsOnlyOn(sv, g \cap h, CommonVars)
    BY <1>5 DEF DependsOnlyOn
  <2> HIDE DEF R
  <2>5. QED
    BY <1>1, <1>4, <2>1, <2>2, <2>3, <2>4 DEF Partial, R
<1>8. QED
  BY <1>6, <1>7

(* A chain joins the partial interpolants of the clauses it names.          *)
LEMMA ChainPartial ==
  ASSUME ProofExact, NEW of, NEW c \in Numbers, c \notin Roots(sv),
         \A d \in Range(sv.log[c].ids) : Partial(Lits(d), of[d])
  PROVE  Partial(Lits(c), ChainItps(sv, isClauseOn, of, sv.log[c])[Len(sv.log[c].vars)])
<1> DEFINE ch == sv.log[c]
           n == Len(ch.vars)
           C(k) == Resolvents(sv.log, ch)[k]
           g(k) == ChainItps(sv, isClauseOn, of, ch)[k]
           S == {k \in Nat : k <= n => Partial(C(k), g(k))}
<1>1. /\ n \in Nat /\ DOMAIN ch.ids = 1 .. n + 1
      /\ Lits(c) = C(n)
      /\ \A k \in 1 .. n : ch.vars[k] \in Nat /\ Pivots(C(k - 1), Lits(ch.ids[k + 1]), ch.vars[k]) # {}
  BY ChainEntry
<1>2. \A i \in 1 .. n + 1 : Partial(Lits(ch.ids[i]), of[ch.ids[i]])
  BY <1>1 DEF Range
<1>3. 0 \in S
  <2>1. C(0) = Lits(ch.ids[1]) /\ g(0) = of[ch.ids[1]]
    BY <1>1, ResolventSteps, ChainSteps DEF Lits
  <2>2. 1 \in 1 .. n + 1
    BY <1>1
  <2>3. Partial(C(0), g(0))
    BY <1>2, <2>1, <2>2
  <2>4. QED
    BY <2>3
<1>4. ASSUME NEW k \in Nat, k \in S PROVE k + 1 \in S
  <2>1. SUFFICES ASSUME k + 1 <= n PROVE Partial(C(k + 1), g(k + 1))
    OBVIOUS
  <2>2. /\ k + 1 \in 1 .. n /\ (k + 1) + 1 \in 1 .. n + 1 /\ (k + 1) - 1 = k
        /\ Partial(C(k), g(k))
    BY <1>1, <1>4, <2>1
  <2> DEFINE d == ch.ids[(k + 1) + 1]
             x == ch.vars[k + 1]
  <2>3. C(k + 1) = Resolvent(C(k), Lits(d), x) /\ g(k + 1) = Join(sv, isClauseOn, g(k), of[d], x)
    <3>1. C(k + 1) = Resolvent(C((k + 1) - 1), Lits(d), x)
      BY <1>1, <2>2, ResolventSteps DEF Lits
    <3>2. g(k + 1) = Join(sv, isClauseOn, g((k + 1) - 1), of[d], x)
      <4>1. \A j \in 1 .. n : g(j) = Join(sv, isClauseOn, g(j - 1), of[ch.ids[j + 1]], ch.vars[j])
        <5>1. Len(ch.vars) \in Nat
          BY <1>1
        <5> HIDE DEF ch
        <5>2. QED
          BY <5>1, ChainSteps
      <4> HIDE DEF g, n, ch
      <4>2. QED
        BY <2>2, <4>1
    <3>3. QED
      BY <2>2, <3>1, <3>2
  <2>4. x \in Nat /\ Pivots(C(k), Lits(d), x) # {} /\ Partial(Lits(d), of[d])
    <3>1. x \in Nat /\ Pivots(C((k + 1) - 1), Lits(d), x) # {}
      BY <1>1, <2>2
    <3>2. QED
      BY <1>2, <2>2, <3>1
  <2>5. PICK p \in Pivots(C(k), Lits(d), x) : C(k + 1) = ResolventOn(C(k), Lits(d), p)
    <3> HIDE DEF C, d, x
    <3>1. QED
      BY <2>3, <2>4, ResolventIs
  <2> HIDE DEF C, g, d, x
  <2>6. Partial(ResolventOn(C(k), Lits(d), p), Join(sv, isClauseOn, g(k), of[d], x))
    BY <2>2, <2>4, <2>5, ResolutionPartial
  <2>7. QED
    BY <2>3, <2>5, <2>6
<1>5. n \in S
  <2>1. n \in Nat
    BY <1>1
  <2> HIDE DEF S, n
  <2>2. QED
    BY <1>3, <1>4, <2>1, AllNumbers
<1>6. QED
  BY <1>1, <1>5

(* After k entries the table has the used ones up to k.                     *)
Tabled(k) ==
  LET of == ItpsOf(sv, isClauseOn, Used)[k]
  IN  DOMAIN of = Used \cap 1 .. k /\ \A d \in Used \cap 1 .. k : Partial(Lits(d), of[d])

\* The table is right for every used clause: by the number of the clause.
LEMMA TablePartial ==
  ASSUME ProofExact, LastId(sv) >= 1
  PROVE  Tabled(LastId(sv))
<1> DEFINE n == LastId(sv)
           of(k) == ItpsOf(sv, isClauseOn, Used)[k]
           S == {k \in Nat : k <= n => Tabled(k)}
<1>1. n \in Nat
  BY LogIsNumbered
<1>2. 0 \in S
  <2>1. of(0) = [c \in {} |-> {}]
    BY <1>1, TableSteps
  <2>2. Used \cap 1 .. 0 = {}
    OBVIOUS
  <2>3. DOMAIN of(0) = {}
    BY <2>1
  <2>4. Tabled(0)
    BY <2>2, <2>3 DEF Tabled
  <2>5. QED
    BY <2>4
<1>3. ASSUME NEW k \in Nat, k \in S PROVE k + 1 \in S
  <2>1. SUFFICES ASSUME k + 1 <= n PROVE Tabled(k + 1)
    OBVIOUS
  <2>2. k + 1 \in 1 .. n /\ (k + 1) - 1 = k /\ Tabled(k)
    BY <1>1, <1>3, <2>1
  <2> DEFINE c == k + 1
             old == of(k)
             new == of(c)
  <2>3. new = FileItp(sv, isClauseOn, Used, old, c)
    BY <1>1, <2>2, TableSteps
  <2>4. new = [d \in DOMAIN old \cup ({c} \cap Used) |->
                 IF d = c THEN ItpOfClause(sv, isClauseOn, old, c) ELSE old[d]]
    BY <2>3 DEF FileItp
  <2>5. DOMAIN old = Used \cap 1 .. k /\ \A d \in Used \cap 1 .. k : Partial(Lits(d), old[d])
    BY <2>2 DEF Tabled
  <2>6. Used \cap 1 .. c = (Used \cap 1 .. k) \cup ({c} \cap Used) /\ c \notin 1 .. k
    OBVIOUS
  <2>7. ASSUME c \in Used PROVE Partial(Lits(c), ItpOfClause(sv, isClauseOn, old, c))
    <3>1. CASE c \in Roots(sv)
      BY <3>1, RootPartial DEF ItpOfClause, Roots
    <3>2. CASE c \notin Roots(sv)
      <4>1. c \in Numbers
        BY <2>2 DEF Numbers
      <4>2. Range(sv.log[c].ids) \subseteq 1 .. k
        BY <4>1, IdsAreEarlier
      <4>3. Range(sv.log[c].ids) \subseteq Used
        BY <2>7, UsedClosed
      <4>4. \A d \in Range(sv.log[c].ids) : Partial(Lits(d), old[d])
        BY <2>5, <4>2, <4>3
      <4> HIDE DEF c, old
      <4>5. Partial(Lits(c), ChainItps(sv, isClauseOn, old, sv.log[c])[Len(sv.log[c].vars)])
        BY <3>2, <4>1, <4>4, ChainPartial
      <4>6. ~sv.log[c].root
        BY <3>2, <4>1, LogIsNumbered DEF Roots
      <4>7. QED
        BY <4>5, <4>6 DEF ItpOfClause
    <3>3. QED
      BY <3>1, <3>2
  <2> HIDE DEF c, old
  <2>8. DOMAIN new = Used \cap 1 .. c
    BY <2>4, <2>5, <2>6
  <2>9. ASSUME NEW d \in Used \cap 1 .. c PROVE Partial(Lits(d), new[d])
    <3>1. new[d] = IF d = c THEN ItpOfClause(sv, isClauseOn, old, c) ELSE old[d]
      BY <2>4, <2>5, <2>6
    <3>2. QED
      BY <2>5, <2>6, <2>7, <3>1
  <2>10. Tabled(c)
    BY <2>8, <2>9 DEF Tabled
  <2>11. QED
    BY <2>10 DEF c
<1>4. n \in S
  <2> HIDE DEF S, n
  <2>1. QED
    BY <1>1, <1>2, <1>3, AllNumbers
<1>5. QED
  BY <1>1, <1>4

(* What getItp builds holds with the onset, never with the offset, and is   *)
(* about common variables.                                                  *)
LEMMA BuildItpSeparates ==
  ASSUME ProofExact, ~sv.ok
  PROVE  LET g == BuildItp(sv, isClauseOn)
         IN  OnSide \subseteq g /\ OffSide \cap g = {} /\ DependsOnlyOn(sv, g, CommonVars)
<1> DEFINE n == LastId(sv)
           g == BuildItp(sv, isClauseOn)
<1>1. n \in Nat /\ n >= 1 /\ Lits(n) = {}
  BY LogIsNumbered DEF ProofExact, Lits
<1>2. n \in Used \cap 1 .. n
  BY <1>1, UsedClosed
<1>3. g = ItpsOf(sv, isClauseOn, Used)[n][n]
  BY DEF BuildItp, Used
<1>4. Partial(Lits(n), g)
  BY <1>1, <1>2, <1>3, TablePartial DEF Tabled
<1>5. QED
  BY <1>1, <1>4 DEF Partial, OnTrue, OffTrue

-----------------------------------------------------------------------------
(***************************************************************************)
(* Cores: an assignment that satisfies the used roots satisfies every used *)
(* clause, the empty one with them.                                        *)
(***************************************************************************)
Holds(a, c) == \E p \in Lits(c) : a \in LitGate(sv, p)

\* What satisfies both parents satisfies the resolvent.
LEMMA ResolutionHolds ==
  ASSUME NEW C \in SUBSET Literals, NEW D, NEW x \in Nat, NEW p \in Pivots(C, D, x),
         NEW a \in Inputs(sv),
         \E q \in C : a \in LitGate(sv, q), \E q \in D : a \in LitGate(sv, q)
  PROVE  \E q \in ResolventOn(C, D, p) : a \in LitGate(sv, q)
<1>1. p \in Literals
  BY PivotOf
<1>2. ~(a \in LitGate(sv, p) /\ a \in LitGate(sv, Neg(p)))
  BY <1>1, Complement
<1>3. PICK q \in C : a \in LitGate(sv, q)
  OBVIOUS
<1>4. PICK r \in D : a \in LitGate(sv, r)
  OBVIOUS
<1>5. q # p \/ r # Neg(p)
  BY <1>2, <1>3, <1>4
<1>6. QED
  BY <1>3, <1>4, <1>5 DEF ResolventOn

(* Literals of a resolvent of clauses over the variables are over them.     *)
LEMMA ResolventLiterals ==
  ASSUME NEW C \in SUBSET Literals, NEW D \in SUBSET Literals, NEW p
  PROVE  ResolventOn(C, D, p) \in SUBSET Literals
BY DEF ResolventOn

\* What satisfies the antecedents of a chain satisfies its clause.
LEMMA ChainHolds ==
  ASSUME ProofExact, NEW a \in Inputs(sv), NEW c \in Numbers, c \notin Roots(sv),
         \A d \in Range(sv.log[c].ids) : Lits(d) \in SUBSET Literals /\ Holds(a, d)
  PROVE  Lits(c) \in SUBSET Literals /\ Holds(a, c)
<1> DEFINE ch == sv.log[c]
           n == Len(ch.vars)
           C(k) == Resolvents(sv.log, ch)[k]
           Meets(k) == C(k) \in SUBSET Literals /\ \E p \in C(k) : a \in LitGate(sv, p)
           S == {k \in Nat : k <= n => Meets(k)}
<1>1. /\ n \in Nat /\ DOMAIN ch.ids = 1 .. n + 1
      /\ Lits(c) = C(n)
      /\ \A k \in 1 .. n : ch.vars[k] \in Nat /\ Pivots(C(k - 1), Lits(ch.ids[k + 1]), ch.vars[k]) # {}
  BY ChainEntry
<1>2. \A i \in 1 .. n + 1 : Lits(ch.ids[i]) \in SUBSET Literals /\ Holds(a, ch.ids[i])
  BY <1>1 DEF Range
<1>3. 0 \in S
  <2>1. C(0) = Lits(ch.ids[1])
    BY <1>1, ResolventSteps DEF Lits
  <2>2. 1 \in 1 .. n + 1
    BY <1>1
  <2>3. Meets(0)
    BY <1>2, <2>1, <2>2 DEF Holds
  <2>4. QED
    BY <2>3
<1>4. ASSUME NEW k \in Nat, k \in S PROVE k + 1 \in S
  <2>1. SUFFICES ASSUME k + 1 <= n PROVE Meets(k + 1)
    OBVIOUS
  <2>2. k + 1 \in 1 .. n /\ (k + 1) + 1 \in 1 .. n + 1 /\ (k + 1) - 1 = k /\ Meets(k)
    BY <1>1, <1>4, <2>1
  <2> DEFINE d == ch.ids[(k + 1) + 1]
             x == ch.vars[k + 1]
  <2>3. C(k + 1) = Resolvent(C(k), Lits(d), x)
    <3>1. C(k + 1) = Resolvent(C((k + 1) - 1), Lits(d), x)
      BY <1>1, <2>2, ResolventSteps DEF Lits
    <3>2. QED
      BY <2>2, <3>1
  <2>4. x \in Nat /\ Pivots(C(k), Lits(d), x) # {}
    <3>1. x \in Nat /\ Pivots(C((k + 1) - 1), Lits(d), x) # {}
      BY <1>1, <2>2
    <3>2. QED
      BY <2>2, <3>1
  <2>5. Lits(d) \in SUBSET Literals /\ \E q \in Lits(d) : a \in LitGate(sv, q)
    BY <1>2, <2>2 DEF Holds
  <2>6. PICK p \in Pivots(C(k), Lits(d), x) : C(k + 1) = ResolventOn(C(k), Lits(d), p)
    <3> HIDE DEF C, d, x
    <3>1. QED
      BY <2>3, <2>4, ResolventIs
  <2>7. C(k) \in SUBSET Literals /\ \E q \in C(k) : a \in LitGate(sv, q)
    BY <2>2
  <2> HIDE DEF C, d, x
  <2>8. \E q \in ResolventOn(C(k), Lits(d), p) : a \in LitGate(sv, q)
    BY <2>4, <2>5, <2>6, <2>7, ResolutionHolds
  <2>9. QED
    BY <2>5, <2>6, <2>7, <2>8, ResolventLiterals
<1>5. n \in S
  <2>1. n \in Nat
    BY <1>1
  <2> HIDE DEF S, n
  <2>2. QED
    BY <1>3, <1>4, <2>1, AllNumbers
<1>6. QED
  BY <1>1, <1>5 DEF Holds

\* The input clauses used have no common model: by the number of the clause.
LEMMA UsedRootsRefute ==
  ASSUME ProofExact, ~sv.ok
  PROVE  Conj(sv, Core(sv)) = {}
<1> DEFINE n == LastId(sv)
<1>1. n \in Nat /\ n >= 1 /\ Lits(n) = {}
  BY LogIsNumbered DEF ProofExact, Lits
<1>2. SUFFICES ASSUME NEW a \in Conj(sv, Core(sv)) PROVE FALSE
  OBVIOUS
<1>3. a \in Inputs(sv) /\ \A c \in Core(sv) : Holds(a, c)
  BY DEF Conj, ClauseGate, Holds, Lits
<1> DEFINE Meets(k) == \A c \in Used \cap 1 .. k : Lits(c) \in SUBSET Literals /\ Holds(a, c)
           S == {k \in Nat : k <= n => Meets(k)}
<1>4. 0 \in S
  OBVIOUS
<1>5. ASSUME NEW k \in Nat, k \in S PROVE k + 1 \in S
  <2>1. SUFFICES ASSUME k + 1 <= n, k + 1 \in Used
                 PROVE  Lits(k + 1) \in SUBSET Literals /\ Holds(a, k + 1)
    <3>1. \A c \in 1 .. k + 1 : c \in 1 .. k \/ c = k + 1
      OBVIOUS
    <3>2. k + 1 <= n => Meets(k)
      BY <1>1, <1>5
    <3> QED
      BY <3>1, <3>2
  <2>2. Meets(k) /\ k + 1 \in Numbers /\ (k + 1) - 1 = k
    BY <1>1, <1>5, <2>1 DEF Numbers
  <2>3. CASE k + 1 \in Roots(sv)
    <3>1. k + 1 \in Core(sv)
      BY <2>1, <2>3 DEF Core, Used
    <3>2. QED
      BY <1>3, <2>3, <3>1, RootEntry
  <2>4. CASE k + 1 \notin Roots(sv)
    <3>1. Range(sv.log[k + 1].ids) \subseteq 1 .. (k + 1) - 1
      BY <2>2, IdsAreEarlier
    <3>2. Range(sv.log[k + 1].ids) \subseteq Used
      BY <1>1, <2>1, UsedClosed
    <3>3. \A d \in Range(sv.log[k + 1].ids) : Lits(d) \in SUBSET Literals /\ Holds(a, d)
      BY <2>2, <3>1, <3>2
    <3>4. QED
      BY <1>3, <2>2, <2>4, <3>3, ChainHolds
  <2>5. QED
    BY <2>3, <2>4
<1>6. Meets(n)
  <2>1. n \in S
    <3> HIDE DEF S, n
    <3>1. QED
      BY <1>1, <1>4, <1>5, AllNumbers
  <2>2. QED
    BY <1>1, <2>1
<1>7. n \in Used \cap 1 .. n
  BY <1>1, UsedClosed
<1>8. QED
  BY <1>1, <1>6, <1>7 DEF Holds

-----------------------------------------------------------------------------
(***************************************************************************)
(* The theorems.                                                           *)
(***************************************************************************)
ItpShape == DOMAIN itp = {"made", "gate", "core"}

(* The manager's results keep their fields.                                 *)
LEMMA ShapeKept == ItpSpec => []ItpShape
<1>1. ItpInit => ItpShape
  BY DEF ItpInit, NoItp, ItpShape
<1>2. ItpShape /\ [ItpNext]_allVars => ItpShape'
  BY DEF ItpShape, ItpNext, AddMarked, GetItp, GetUNSATCore, itpVars, allVars
<1>3. QED
  BY <1>1, <1>2, PTL DEF ItpSpec

\* The interpolant that getItp builds separates the halves.
LEMMA GetItpSeparates == ItpShape /\ ProofExact /\ GetItp => ItpSeparates'
<1> SUFFICES ASSUME ItpShape, ProofExact, GetItp PROVE ItpSeparates'
  OBVIOUS
<1>1. ~sv.ok /\ sv' = sv /\ isClauseOn' = isClauseOn
  BY DEF GetItp, vars
<1>2. itp'.gate = BuildItp(sv, isClauseOn)
  BY DEF GetItp, ItpShape
<1>3. OnSide' = OnSide /\ OffSide' = OffSide /\ CommonVars' = CommonVars
  BY <1>1 DEF OnSide, OffSide, OnRoots, CommonVars
<1>4. OnSide \subseteq itp'.gate /\ OffSide \cap itp'.gate = {} /\ DependsOnlyOn(sv, itp'.gate, CommonVars)
  BY <1>1, <1>2, BuildItpSeparates
<1>5. OnSide' \subseteq itp'.gate /\ OffSide' \cap itp'.gate = {} /\ DependsOnlyOn(sv', itp'.gate, CommonVars')
  BY <1>1, <1>3, <1>4
<1>6. QED
  BY <1>5 DEF ItpSeparates, OnSide, OffSide

\* The core that getUNSATCore collects is unsatisfiable.
LEMMA GetCoreRefutes == ItpShape /\ ProofExact /\ GetUNSATCore => CoreRefutes'
<1> SUFFICES ASSUME ItpShape, ProofExact, GetUNSATCore PROVE CoreRefutes'
  OBVIOUS
<1>1. ~sv.ok /\ sv' = sv
  BY DEF GetUNSATCore, vars
<1>2. PICK common \in Groups : itp'.core = CoreClauses(sv, common)
  BY DEF GetUNSATCore, ItpShape
<1>3. {k.root : k \in itp'.core} = Core(sv)
  <2> DEFINE l(c) == Range(CopiedLits(Sorted(sv.log[c].lits), common))
  <2>1. itp'.core = {[root |-> c, lits |-> l(c)] : c \in Core(sv)}
    BY <1>2 DEF CoreClauses
  <2> HIDE DEF l
  <2> DEFINE entry(c) == [root |-> c, lits |-> l(c)]
  <2>2. \A c \in Core(sv) : entry(c).root = c
    OBVIOUS
  <2> HIDE DEF entry
  <2>3. itp'.core = {entry(c) : c \in Core(sv)}
    BY <2>1 DEF entry
  <2>4. QED
    BY <2>2, <2>3
<1>4. Conj(sv, {k.root : k \in itp'.core}) = {}
  BY <1>1, <1>3, UsedRootsRefute
<1>5. QED
  BY <1>1, <1>4 DEF CoreRefutes

(* As long as the proof is one of resolutions, the gate getItp returns is   *)
(* an interpolant of the marked clauses (itpMgr.cpp:415-531), whatever the  *)
(* clauses, their marks and the proof the search happens to find.           *)
THEOREM InterpolantSeparates ==
  ItpSpec /\ []ProofExact => [][GetItp => ItpSeparates']_allVars
<1>1. ItpShape /\ ProofExact /\ [ItpNext]_allVars => [GetItp => ItpSeparates']_allVars
  BY GetItpSeparates
<1>2. QED
  BY <1>1, ShapeKept, PTL DEF ItpSpec

(* As long as the proof is one of resolutions, the root clauses it uses     *)
(* admit no assignment (itpMgr.cpp:231-299).                                *)
THEOREM CoreIsRefuted ==
  ItpSpec /\ []ProofExact => [][GetUNSATCore => CoreRefutes']_allVars
<1>1. ItpShape /\ ProofExact /\ [ItpNext]_allVars => [GetUNSATCore => CoreRefutes']_allVars
  BY GetCoreRefutes
<1>2. QED
  BY <1>1, ShapeKept, PTL DEF ItpSpec
=============================================================================
