------------------------------- MODULE BddMgr -------------------------------
(***************************************************************************)
(* The BDD manager of src/bdd under its commands: BRESET, BSETVar, BINV,   *)
(* BAND, BOr, BNAND, BNOR, BXOR, BXNOR, BCOFactor, BEXist and BCOMpare,    *)
(* over the nodes and algorithms of module BddNode.                        *)
(***************************************************************************)
EXTENDS BddNode, SequencesExt

CONSTANTS
  Names,         \* names BDDs can be given
  DefaultSupports, DefaultCache, \* the sizes the manager is made with (128, 30011)
  NumLevels,     \* bound: the most supports a BRESET asks for
  SupportCounts, \* the numbers of supports it asks for
  CacheSizes,    \* the sizes it asks for the computed table
  VarLevels,     \* bound: the supports that BSETVar names
  MaxArgs,       \* bound: operands of one command
  NodeBudget,    \* bound: no further operation on a larger store
  FreshMemory    \* new CacheNode[s] gets pages nobody has written

ASSUME CountsAssumption  == {DefaultSupports} \union SupportCounts \subseteq 1 .. NumLevels
ASSUME CachesAssumption  == {DefaultCache} \union CacheSizes \subseteq Nat \ {0}
ASSUME MemoryAssumption  == FreshMemory \in BOOLEAN

VARIABLES
  mgr,       \* the node store and the computed table
  supports,  \* _supports[1 ..]
  bddMap     \* _bddMap

vars == <<mgr, supports, bddMap>>

(* A new store: the terminal, then one node per support.                    *)
EmptyStore(cache) == [node |-> <<>>, cache |-> cache, fault |-> "none"]
WithTerminal(cache) == Uniquify(EmptyStore(cache), 0, 0, 0).m
NewStore(n, cache) ==
  FoldLeft(LAMBDA m, i : Uniquify(m, One, Zero, i).m,
           WithTerminal(cache), [i \in 1 .. n |-> i])
NewSupports(n, m) == [i \in 1 .. n |-> Uniquify(m, One, Zero, i).e]

(* new CacheNode[s] constructs the data of an entry but not the key, which  *)
(* is what the memory held: nothing, or the keys of the table just freed,   *)
(* but for the first, where the allocator keeps its links.                  *)
NewCache(c, old) ==
  LET blank == [i \in 0 .. c - 1 |-> NoEntry]
      stale == [i \in 0 .. c - 1 |-> IF i = 0 THEN NoEntry
                                      ELSE [NoEntry EXCEPT !.key = old[i].key]]
  IN  IF FreshMemory \/ Cardinality(DOMAIN old) # c THEN {blank} ELSE {blank, stale}

Init ==
  /\ mgr = NewStore(DefaultSupports, [i \in 0 .. DefaultCache - 1 |-> NoEntry])
  /\ supports = NewSupports(DefaultSupports, mgr)
  /\ bddMap = <<>>

Alive == mgr.fault = "none"
Ready == Alive /\ Cardinality(DOMAIN mgr.node) <= NodeBudget

(* Slip: _computedTable keeps its entries.                                  *)
BResetKeepsCache(n, c) ==
  /\ Alive
  /\ mgr' = NewStore(n, IF c = Cardinality(DOMAIN mgr.cache) THEN mgr.cache
                        ELSE [i \in 0 .. c - 1 |-> NoEntry])
  /\ supports' = NewSupports(n, mgr')
  /\ bddMap' = <<>>

(* Slip: the names stay.                                                    *)
BResetKeepsNames(n, c) ==
  /\ Alive
  /\ \E cache \in NewCache(c, mgr.cache) : mgr' = NewStore(n, cache)
  /\ supports' = NewSupports(n, mgr')
  /\ UNCHANGED bddMap

(* BRESET, and with the sizes it finds restart(): reset() and init().       *)
BReset(n, c) ==
  /\ Alive
  /\ \E cache \in NewCache(c, mgr.cache) : mgr' = NewStore(n, cache)
  /\ supports' = NewSupports(n, mgr')
  /\ bddMap' = <<>>

(* forceAddBddNodeV, unless the process died on the way.                    *)
ForceAdd(r, res) ==
  /\ mgr' = res.m
  /\ bddMap' = IF res.m.fault = "none" THEN (r :> res.e) @@ bddMap ELSE bddMap
  /\ UNCHANGED supports

(* BSETVar: only for a name that is not in the map.                         *)
BSetVar(l, r) ==
  /\ Ready
  /\ l \in DOMAIN supports
  /\ r \notin DOMAIN bddMap
  /\ bddMap' = (r :> supports[l]) @@ bddMap
  /\ UNCHANGED <<mgr, supports>>

BInv(r, n) ==
  /\ Ready
  /\ n \in DOMAIN bddMap
  /\ ForceAdd(r, [m |-> mgr, e |-> Not(bddMap[n])])

(* The loop of the commands with a list of operands: it stops at the first  *)
(* one that is not there, and what it has built so far stays in the store.  *)
Accumulate(op, start, args) ==
  FoldLeft(LAMBDA acc, n :
             IF ~acc.ok \/ n \notin DOMAIN bddMap THEN [acc EXCEPT !.ok = FALSE]
             ELSE Apply(op, acc.m, acc.e, bddMap[n]) @@ [ok |-> TRUE],
           [m |-> mgr, e |-> start, ok |-> TRUE], args)

(* Slip: the result so far is stored although an operand was missing.       *)
ConcludeAnyway(inverted, r, acc) ==
  ForceAdd(r, [m |-> acc.m, e |-> NotIf(inverted, acc.e)])

Conclude(inverted, r, acc) ==
  \/ acc.ok /\ ForceAdd(r, [m |-> acc.m, e |-> NotIf(inverted, acc.e)])
  \/ ~acc.ok /\ mgr' = acc.m /\ UNCHANGED <<supports, bddMap>>

Chain(op, start, inverted, r, args) ==
  Ready /\ Conclude(inverted, r, Accumulate(op, start, args))

BAnd(r, args)  == Chain("and", One,  FALSE, r, args)
BNand(r, args) == Chain("and", One,  TRUE,  r, args)
BOr(r, args)   == Chain("or",  Zero, FALSE, r, args)
BNor(r, args)  == Chain("or",  Zero, TRUE,  r, args)
BXor(r, args)  == Chain("xor", Zero, FALSE, r, args)
BXnor(r, args) == Chain("xor", Zero, TRUE,  r, args)

(* BCOFactor at the level of the node; a constant has level 0 and fails     *)
(* assert(i > 0).                                                           *)
BCofactor(positive, r, n) ==
  LET f  == bddMap[n]
      lv == LevelOf(mgr, f)
  IN  /\ Ready
      /\ n \in DOMAIN bddMap
      /\ ForceAdd(r, IF lv = 0 THEN Die(mgr, "level_zero")
                     ELSE [m |-> mgr,
                           e |-> IF positive THEN LeftCofactor(mgr, f, lv)
                                 ELSE RightCofactor(mgr, f, lv)])

BExist(l, r, n) ==
  /\ Ready
  /\ l \in DOMAIN supports
  /\ n \in DOMAIN bddMap
  /\ ForceAdd(r, Exist(mgr, l, bddMap[n]))

(* What BCOMpare prints of two names: it looks at nothing but the edges.    *)
BCompare(n, k) ==
  IF bddMap[n] = bddMap[k] THEN "equivalent"
  ELSE IF bddMap[n] = Not(bddMap[k]) THEN "inversely equivalent"
  ELSE "not equivalent"

ArgLists == UNION {[1 .. k -> Names] : k \in 1 .. MaxArgs}

Next ==
  \/ \E n \in SupportCounts, c \in CacheSizes : BReset(n, c)
  \/ \E l \in VarLevels, r \in Names : BSetVar(l, r)
  \/ \E r, n \in Names : BInv(r, n)
  \/ \E r \in Names, args \in ArgLists :
       \/ BAnd(r, args)
       \/ BNand(r, args)
       \/ BOr(r, args)
       \/ BNor(r, args)
       \/ BXor(r, args)
       \/ BXnor(r, args)
  \/ \E positive \in BOOLEAN, r, n \in Names : BCofactor(positive, r, n)
  \/ \E l \in 1 .. NumLevels, r, n \in Names : BExist(l, r, n)

Spec == Init /\ [][Next]_vars

-----------------------------------------------------------------------------
Assignments == [1 .. NumLevels -> BOOLEAN]
Meaning(e) == {a \in Assignments : Value(mgr, e, a)}

Nodes == DOMAIN mgr.node
Edges == {2 * a : a \in Nodes} \union {2 * a + 1 : a \in Nodes}

(* Every address, edge and entry is of a node that is there.                *)
TypeOK ==
  /\ Nodes \subseteq 1 .. MaxNodes
  /\ \A a \in Nodes : mgr.node[a].key \in 0 .. NumLevels
  /\ \A a \in Nodes \ {One \div 2} :
       mgr.node[a].left \in Edges /\ mgr.node[a].right \in Edges
  /\ \A i \in DOMAIN supports : supports[i] \in Edges
  /\ DOMAIN bddMap \subseteq Names /\ \A n \in DOMAIN bddMap : bddMap[n] \in Edges
  /\ mgr.fault \in {"none", "null_edge", "level_zero", "bubble"}

(* Two nodes never stand for the same function nor for complements: what    *)
(* makes == on edges a comparison of functions (the fixed-point test of     *)
(* buildPImage, every terminal case of ite), and BCOMpare tell the truth.   *)
Canonical ==
  /\ \A a, b \in Nodes :
       a # b => Meaning(2 * a) # Meaning(2 * b) /\ Meaning(2 * a) # Meaning(2 * b + 1)
  /\ \A n, k \in DOMAIN bddMap :
       /\ BCompare(n, k) = "equivalent" <=> Meaning(bddMap[n]) = Meaning(bddMap[k])
       /\ BCompare(n, k) = "inversely equivalent" <=>
            Meaning(bddMap[n]) = Assignments \ Meaning(bddMap[k])

(* Whatever a later ite can find in the computed table is its answer.       *)
CacheSound ==
  \A i \in DOMAIN mgr.cache :
    LET k == mgr.cache[i].key
        d == mgr.cache[i].data
    IN  k[1] # 0 =>
          /\ {k[1], k[2], k[3], d} \subseteq Edges
          /\ Meaning(d) =
               (Meaning(k[1]) \intersect Meaning(k[2])) \union (Meaning(k[3]) \ Meaning(k[1]))

(* The functions the names stand for are those of the table of functions    *)
(* that the commands promise.                                               *)
Table ==
  INSTANCE BoolTable WITH
    Levels <- 1 .. NumLevels,
    table  <- [n \in DOMAIN bddMap |-> Meaning(bddMap[n])]
ImplementsBoolTable == Table!TSpec

(* nodeMove renames variables: moving the block that starts at from onto    *)
(* the block that starts at to, as ns_to_cs does, gives the function with   *)
(* its arguments moved.                                                     *)
Shifted(f, from, to) ==
  {a \in Assignments :
     \E b \in f : \A l \in from .. NumLevels : b[l] = a[l - from + to]}
MoveIsRename ==
  \A n \in DOMAIN bddMap, from \in 2 .. NumLevels, to \in 1 .. NumLevels - 1 :
    LET f == bddMap[n]
        v == NodeMove(mgr, f, from, to)
    IN  /\ Alive
        /\ to < from
        /\ NumLevels - from < from - to
        /\ ~IsTerminal(f)
        /\ \A g \in Cone(mgr, f) : IsTerminal(g) \/ LevelOf(mgr, g) >= from
        => {a \in Assignments : Value(v.m, v.e, a)} = Shifted(Meaning(f), from, to)

=============================================================================
