------------------------------ MODULE BddNode ------------------------------
(***************************************************************************)
(* The node store of src/bdd and the algorithms on it: the unique table,   *)
(* edges with a complement bit, ite with its standard triples and computed *)
(* table, quantification, moving nodes between levels.                     *)
(*                                                                         *)
(* A manager m is a record: m.node maps the addresses in use to the nodes  *)
(* there, m.cache the slots of the computed table to their entries, and    *)
(* m.fault says what has brought the process down, "none" while it lives.  *)
(* An edge is a number as in the code, the address of a node with the      *)
(* complement bit below it; edge 0 is the null edge.  An operator that     *)
(* changes the manager returns a record [m, e] of the manager and an edge. *)
(***************************************************************************)
EXTENDS Integers, Sequences, FiniteSets, TLC

CONSTANTS
  LevelSpan,      \* levels BddNodeVInt::_level can hold (2^16 in the code)
  MaxNodes,       \* addresses the allocator may hand out
  AddressesGrow   \* later nodes get higher addresses, or lower ones

ASSUME LevelSpanAssumption == LevelSpan \in Nat \ {0}
ASSUME MaxNodesAssumption  == MaxNodes \in Nat \ {0}

NullEdge  == 0
IsNull(e) == e \div 2 = 0
IsNeg(e)  == e % 2 = 1
Not(e)    == IF IsNeg(e) THEN e - 1 ELSE e + 1
NotIf(b, e) == IF b THEN Not(e) ELSE e

(* uniquify(0, 0, 0) is the first node a manager makes. *)
One  == 2 * (IF AddressesGrow THEN 1 ELSE MaxNodes)
Zero == Not(One)
IsTerminal(e) == e \in {One, Zero}

Die(m, why) == [m |-> [m EXCEPT !.fault = IF @ = "none" THEN why ELSE @], e |-> NullEdge]

NewAddress(m) ==
  LET used == Cardinality(DOMAIN m.node)
  IN  IF AddressesGrow THEN used + 1 ELSE MaxNodes - used

(* The node of the triple, made if the unique table has none.               *)
Uniquify(m, l, r, i) ==
  LET n    == [left |-> l, right |-> r, key |-> i]
      same == {a \in DOMAIN m.node : m.node[a] = n}
  IN  IF same # {} THEN [m |-> m, e |-> 2 * CHOOSE a \in same : TRUE]
      ELSE [m |-> [m EXCEPT !.node = @ @@ (NewAddress(m) :> n)], e |-> 2 * NewAddress(m)]

(* _level is a bit field: it keeps the low bits of the level asked for.     *)
LevelOf(m, e) == m.node[e \div 2].key % LevelSpan

(* Cofactors at a level no lower than the node's: every caller asks at the  *)
(* top of what it holds.                                                    *)
LeftCofactor(m, e, i) ==
  IF i > LevelOf(m, e) THEN e ELSE NotIf(IsNeg(e), m.node[e \div 2].left)
RightCofactor(m, e, i) ==
  IF i > LevelOf(m, e) THEN e ELSE NotIf(IsNeg(e), m.node[e \div 2].right)

(* operator< : by level, then by address and complement bit.                *)
Less(m, f, g) ==
  \/ LevelOf(m, f) < LevelOf(m, g)
  \/ LevelOf(m, f) = LevelOf(m, g) /\ f < g

(***************************************************************************)
(* standardize: one triple for the triples that mean the same.             *)
(***************************************************************************)
Identical(f, g, h) ==
  IF f = g THEN <<f, One, h>>
  ELSE IF f = Not(g) THEN <<f, Zero, h>>
  ELSE IF f = h THEN <<f, g, Zero>>
  ELSE IF f = Not(h) THEN <<f, g, One>>
  ELSE <<f, g, h>>

Symmetrical(m, f, g, h) ==
  IF g = One THEN IF Less(m, h, f) THEN <<h, g, f>> ELSE <<f, g, h>>
  ELSE IF g = Zero THEN IF Less(m, h, f) THEN <<Not(h), g, Not(f)>> ELSE <<f, g, h>>
  ELSE IF h = One THEN IF Less(m, g, f) THEN <<Not(g), Not(f), h>> ELSE <<f, g, h>>
  ELSE IF h = Zero THEN IF Less(m, g, f) THEN <<g, f, h>> ELSE <<f, g, h>>
  ELSE IF g = Not(h) THEN IF Less(m, g, f) THEN <<g, f, Not(f)>> ELSE <<f, g, h>>
  ELSE <<f, g, h>>

(* f and g are regular afterwards; neg tells to complement the result.      *)
Positive(f, g, h) ==
  LET p == IF IsNeg(f) THEN <<Not(f), h, g>> ELSE <<f, g, h>>
  IN  IF IsNeg(p[2]) THEN [k |-> <<p[1], Not(p[2]), Not(p[3])>>, neg |-> TRUE]
      ELSE [k |-> p, neg |-> FALSE]

Standardize(m, f, g, h) ==
  LET SymmetricalOf(i) == Symmetrical(m, i[1], i[2], i[3])
      PositiveOf(i) == Positive(i[1], i[2], i[3])
  IN  PositiveOf(SymmetricalOf(Identical(f, g, h)))

(* checkIteTerminal: does the triple need no recursion, and what is it.     *)
IsTerminalCase(f, g, h) ==
  g = h \/ f \in {One, Zero} \/ (g = One /\ h = Zero)
TerminalCase(f, g, h) ==
  IF g = h \/ f = One THEN g ELSE IF f = Zero THEN h ELSE f

(* The computed table: Cache::read and Cache::write.                        *)
NoEntry == [key |-> <<0, 0, 0>>, data |-> NullEdge]
Slot(m, k) == (8 * (k[1] + k[2] + k[3])) % Cardinality(DOMAIN m.cache)

Hit(m, k) == m.cache[Slot(m, k)].key = k
CacheRead(m, k) == m.cache[Slot(m, k)].data
CacheWrite(m, k, d) == [m EXCEPT !.cache[Slot(m, k)] = [key |-> k, data |-> d]]

TopLevel(m, k) ==
  CHOOSE v \in {LevelOf(m, k[1]), LevelOf(m, k[2]), LevelOf(m, k[3])} :
    \A j \in 1 .. 3 : LevelOf(m, k[j]) <= v

(***************************************************************************)
(* ite.  A null operand is dereferenced by the first comparison; a top     *)
(* level of 0 fails the assertion of the cofactors; a complemented left    *)
(* edge fails assert(!moveBubble).                                         *)
(***************************************************************************)
RECURSIVE Ite(_, _, _, _)

Complement(b, r) == [r EXCEPT !.e = NotIf(b, @)]
Enter(r, k) == [r EXCEPT !.m = CacheWrite(@, k, r.e)]

(* The node of the results of the two halves, and its place in the table.   *)
IteJoin(k, v, t, e) ==
  IF t.e = e.e THEN Enter(e, k)
  ELSE IF IsNeg(t.e) THEN Die(e.m, "bubble")
  ELSE Enter(Uniquify(e.m, t.e, e.e, v), k)

IteRight(k, v, t) ==
  IteJoin(k, v, t, Ite(t.m, RightCofactor(t.m, k[1], v), RightCofactor(t.m, k[2], v),
                            RightCofactor(t.m, k[3], v)))

IteSplit(m, k, v) ==
  IF v = 0 THEN Die(m, "level_zero")
  ELSE IteRight(k, v, Ite(m, LeftCofactor(m, k[1], v), LeftCofactor(m, k[2], v),
                             LeftCofactor(m, k[3], v)))

IteStandard(m, k) ==
  IF IsTerminalCase(k[1], k[2], k[3])
  THEN [m |-> m, e |-> TerminalCase(k[1], k[2], k[3])]
  ELSE IF Hit(m, k) THEN [m |-> m, e |-> CacheRead(m, k)]
  ELSE IteSplit(m, k, TopLevel(m, k))

IteOf(m, s) == Complement(s.neg, IteStandard(m, s.k))

Ite(m, f, g, h) ==
  IF m.fault # "none" THEN [m |-> m, e |-> NullEdge]
  ELSE IF IsNull(f) \/ IsNull(g) \/ IsNull(h) THEN Die(m, "null_edge")
  ELSE IteOf(m, Standardize(m, f, g, h))

(* The operators of BddNodeV: f & g, f | g, f ^ g.                          *)
Apply(op, m, f, g) ==
  Ite(m, f, CASE op = "and" -> g [] op = "or" -> One [] op = "xor" -> Not(g),
            IF op = "and" THEN Zero ELSE g)

(***************************************************************************)
(* exist(l), with the map of the results of this call.                     *)
(***************************************************************************)
(* Slip: the node is made with whatever left edge there is.                 *)
PlainNode(m, t, e, lv) == Uniquify(m, t, e, lv)

(* The node of two different cofactors, its left edge made regular.         *)
RegularNode(m, t, e, lv) ==
  LET u == Uniquify(m, NotIf(IsNeg(t), t), NotIf(IsNeg(t), e), lv)
  IN  [m |-> u.m, e |-> NotIf(IsNeg(t), u.e)]

RECURSIVE ExistRecur(_, _, _, _)

Remember(f, r, seen) == [m |-> r.m, e |-> r.e, seen |-> seen @@ (f :> r.e)]

ExistJoin(f, lv, t, e) ==
  Remember(f, IF t.e = e.e THEN e ELSE RegularNode(e.m, t.e, e.e, lv), e.seen)

ExistRight(l, f, lv, t) ==
  ExistJoin(f, lv, t, ExistRecur(t.m, l, RightCofactor(t.m, f, lv), t.seen))

ExistSplit(m, l, f, lv, seen) ==
  IF l = lv
  THEN Remember(f, Apply("or", m, LeftCofactor(m, f, lv), RightCofactor(m, f, lv)), seen)
  ELSE ExistRight(l, f, lv, ExistRecur(m, l, LeftCofactor(m, f, lv), seen))

ExistRecur(m, l, f, seen) ==
  IF IsTerminal(f) \/ l > LevelOf(m, f) THEN [m |-> m, e |-> f, seen |-> seen]
  ELSE IF f \in DOMAIN seen THEN [m |-> m, e |-> seen[f], seen |-> seen]
  ELSE ExistSplit(m, l, f, LevelOf(m, f), seen)

Exist(m, l, f) == ExistRecur(m, l, f, <<>>)

(***************************************************************************)
(* nodeMove(from, to).  The terminal has no children to take; a node below *)
(* from is looked for in [from - 1, 1], so found only if from is 2.        *)
(***************************************************************************)
RECURSIVE Cone(_, _)
Cone(m, f) ==
  IF IsTerminal(f) THEN {f}
  ELSE {f} \union Cone(m, m.node[f \div 2].left) \union Cone(m, m.node[f \div 2].right)

ContainNode(m, f, bLevel, eLevel) ==
  \E g \in Cone(m, f) : bLevel <= LevelOf(m, g) /\ LevelOf(m, g) <= eLevel

(* Slip: the complement bit of the edge moved is lost.                      *)
RECURSIVE NodeMoveNoNeg(_, _, _, _, _)
NodeMoveNoNeg(m, f, from, to, moved) ==
  LET n == m.node[f \div 2]
      l == IF IsTerminal(n.left) THEN [m |-> m, e |-> n.left]
           ELSE NodeMoveNoNeg(m, n.left, from, to, moved)
      r == IF IsTerminal(n.right) THEN [m |-> l.m, e |-> n.right]
           ELSE NodeMoveNoNeg(l.m, n.right, from, to, moved)
  IN  Uniquify(r.m, l.e, r.e, LevelOf(m, f) - from + to) @@ [moved |-> moved]

RECURSIVE NodeMoveRecur(_, _, _, _, _)
NodeMoveRecur(m, f, from, to, moved) ==
  LET n == m.node[f \div 2]
      l == IF IsTerminal(n.left) THEN [m |-> m, e |-> n.left, moved |-> moved]
           ELSE NodeMoveRecur(m, n.left, from, to, moved)
      r == IF IsTerminal(n.right) THEN [m |-> l.m, e |-> n.right, moved |-> l.moved]
           ELSE NodeMoveRecur(l.m, n.right, from, to, l.moved)
      u == Uniquify(r.m, l.e, r.e, LevelOf(m, f) - from + to)
      e == NotIf(IsNeg(f), u.e)
  IN  IF IsTerminal(f) THEN Die(m, "null_child") @@ [moved |-> moved]
      ELSE IF f \in DOMAIN moved THEN [m |-> m, e |-> moved[f], moved |-> moved]
      ELSE [m |-> u.m, e |-> e, moved |-> r.moved @@ (f :> e)]

Distance(a, b) == IF a > b THEN a - b ELSE b - a

NodeMove(m, f, from, to) ==
  IF \/ LevelOf(m, f) - from >= Distance(from, to)
     \/ ContainNode(m, f, from - 1, 1)
  THEN [m |-> m, e |-> f, isMoved |-> FALSE]
  ELSE LET r == NodeMoveRecur(m, f, from, to, <<>>)
       IN  [m |-> r.m, e |-> r.e, isMoved |-> TRUE]

-----------------------------------------------------------------------------
(***************************************************************************)
(* What an edge means: the value of its function under an assignment of    *)
(* the levels.                                                             *)
(***************************************************************************)
RECURSIVE Value(_, _, _)
Value(m, f, a) ==
  LET n == m.node[f \div 2]
  IN  IF IsTerminal(f) THEN f = One
      ELSE (IF a[n.key] THEN Value(m, n.left, a) ELSE Value(m, n.right, a)) # IsNeg(f)

=============================================================================
