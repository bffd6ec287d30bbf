----------------------------- MODULE SatOracle -----------------------------
(***************************************************************************)
(* What a caller of the SAT solver is promised, whatever the solver does   *)
(* inside: clauses are handed over one at a time, a question asks for an   *)
(* assignment that satisfies all of them together with some assumptions,   *)
(* and the reply is true of the clauses handed over so far.  Variables are *)
(* 0 .. n-1 and literals the numbers 2v and 2v+1, as in SolverTypes.h.     *)
(***************************************************************************)
EXTENDS Naturals, Sequences, Functions

Var(p) == p \div 2
Sign(p) == p % 2
Neg(p) == IF Sign(p) = 0 THEN p + 1 ELSE p - 1

\* An assignment is the set of the literals it makes true.
Assignments(n) == {{2 * v + f[v] : v \in 0 .. n - 1} : f \in [0 .. n - 1 -> {0, 1}]}
Satisfies(a, C) == a \cap C # {}
Models(n, F) == {a \in Assignments(n) : \A C \in F : Satisfies(a, C)}

VARIABLES
    numVars,     \* variables created
    given,       \* clauses handed over
    asked,       \* the assumptions of the question in progress
    busy,        \* a question is in progress
    reply        \* [said, model, core]: what the last question was told

oracleVars == <<numVars, given, asked, busy, reply>>

NoReply == [said |-> "none", model |-> {}, core |-> {}]

OracleInit ==
    /\ numVars = 0 /\ given = {} /\ asked = <<>> /\ busy = FALSE
    /\ reply = NoReply

OracleNewVar ==
    /\ ~busy
    /\ numVars' = numVars + 1 /\ reply' = NoReply
    /\ UNCHANGED <<given, asked, busy>>

OracleAdd ==
    /\ ~busy
    /\ \E C \in SUBSET (0 .. 2 * numVars - 1) : given' = given \cup {C}
    /\ reply' = NoReply
    /\ UNCHANGED <<numVars, asked, busy>>

OracleAsk ==
    /\ ~busy /\ busy' = TRUE
    /\ reply' = NoReply
    /\ Range(asked') \subseteq 0 .. 2 * numVars - 1
    /\ UNCHANGED <<numVars, given>>

\* "sat" comes with a model of everything given and assumed; "unsat" with a
\* clause over the negated assumptions that follows from everything given;
\* "unknown" is what a question with a budget may be told.
Truthful(r) ==
    \/ /\ r.said = "sat"
       /\ r.model \in Models(numVars, given)
       /\ Range(asked) \subseteq r.model
    \/ /\ r.said = "unsat"
       /\ r.core \subseteq {Neg(p) : p \in Range(asked)}
       /\ \A a \in Models(numVars, given) : Satisfies(a, r.core)
    \/ r.said = "unknown"

OracleReply ==
    /\ busy /\ busy' = FALSE
    /\ Truthful(reply')
    /\ UNCHANGED <<numVars, given, asked>>

\* A new problem: nothing is remembered of the old one.
OracleReset ==
    /\ ~busy
    /\ numVars' = 0 /\ given' = {} /\ asked' = <<>> /\ reply' = NoReply
    /\ UNCHANGED busy

OracleNext == OracleNewVar \/ OracleAdd \/ OracleAsk \/ OracleReply \/ OracleReset

OracleSpec == OracleInit /\ [][OracleNext]_oracleVars
=============================================================================
