----------------------------- MODULE BoolTable -----------------------------
(***************************************************************************)
(* What the BDD commands promise, with no node, edge or cache in sight: a  *)
(* table of named Boolean functions, in which a name is set to the         *)
(* combination of others.  A function is the set of the assignments that   *)
(* make it true.                                                           *)
(***************************************************************************)
EXTENDS Naturals, Sequences, SequencesExt, TLC

CONSTANTS
  Names,     \* names a function can have
  Levels,    \* 1 .. the number of variables
  MaxArgs    \* bound: operands of one command

VARIABLE
  table      \* the named functions

Assignments == [Levels -> BOOLEAN]
Var(l) == {a \in Assignments : a[l]}
Compl(f) == Assignments \ f

Combine(op, f, g) ==
  CASE op = "and" -> f \intersect g
    [] op = "or"  -> f \union g
    [] op = "xor" -> (f \ g) \union (g \ f)

(* A function depends on a level if changing it there alone matters.        *)
Flip(a, l) == [a EXCEPT ![l] = ~@]
DependsOn(f, l) == \E a \in Assignments : (a \in f) # (Flip(a, l) \in f)
Support(f) == {l \in Levels : DependsOn(f, l)}
Top(f) == CHOOSE l \in Support(f) : \A k \in Support(f) : k <= l

CofactorAt(f, l, b) == {a \in Assignments : [a EXCEPT ![l] = b] \in f}
ExistsAt(f, l) == CofactorAt(f, l, TRUE) \union CofactorAt(f, l, FALSE)

ArgLists == UNION {[1 .. k -> Names] : k \in 1 .. MaxArgs}

(***************************************************************************)
(* Steps, as relations between the table before a command and after it.    *)
(***************************************************************************)
Let(now, next, r, f) == next = (r :> f) @@ now

Clear(now, next) == next = <<>>

NewVar(now, next, r, l) == r \notin DOMAIN now /\ Let(now, next, r, Var(l))

Invert(now, next, r, n) == n \in DOMAIN now /\ Let(now, next, r, Compl(now[n]))

Chain(now, next, op, inverted, r, args) ==
  LET start == IF op = "and" THEN Assignments ELSE {}
      f == FoldLeft(LAMBDA acc, n : Combine(op, acc, now[n]), start, args)
  IN  /\ \A i \in DOMAIN args : args[i] \in DOMAIN now
      /\ Let(now, next, r, IF inverted THEN Compl(f) ELSE f)

Cofactor(now, next, positive, r, n) ==
  /\ n \in DOMAIN now
  /\ Support(now[n]) # {}
  /\ Let(now, next, r, CofactorAt(now[n], Top(now[n]), positive))

Exists(now, next, l, r, n) ==
  n \in DOMAIN now /\ Let(now, next, r, ExistsAt(now[n], l))

(* Only the name that is set changes. *)
Others(now, next, r) == \A n \in DOMAIN now \ {r} : n \in DOMAIN next /\ next[n] = now[n]

Define(now, next) ==
  \/ Clear(now, next)
  \/ \E r \in {n \in DOMAIN next : Others(now, next, n)} :
       \/ \E l \in Levels : NewVar(now, next, r, l)
       \/ \E n \in DOMAIN now :
            \/ Invert(now, next, r, n)
            \/ \E positive \in BOOLEAN : Cofactor(now, next, positive, r, n)
            \/ \E l \in Levels : Exists(now, next, l, r, n)
       \/ \E op \in {"and", "or", "xor"}, inverted \in BOOLEAN, args \in ArgLists :
            Chain(now, next, op, inverted, r, args)

TInit == table = <<>>

TNext == Define(table, table')

TSpec == TInit /\ [][TNext]_table

=============================================================================
