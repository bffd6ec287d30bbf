---------------------------- MODULE Reachability ----------------------------
(***************************************************************************)
(* What the BDD prove engine (src/prove) promises, with no BDD in sight:   *)
(* a breadth-first search of the states of a sequential circuit, told by   *)
(* the user how far to go, that says for one output at a time whether a    *)
(* state it has seen can raise that output.                                *)
(*                                                                         *)
(* A circuit is a record [delta, mon]: delta[<<s, x>>] is the state of the *)
(* latches after a clock in state s under input x, mon[o] the set of pairs *)
(* <<s, x>> that make output o true.                                       *)
(***************************************************************************)
EXTENDS Naturals

CONSTANTS
  StateSet,     \* the assignments of the latches
  InputSet,     \* the assignments of the primary inputs
  OutputSet,    \* the primary outputs
  InitialState  \* the state the search starts in

VARIABLES
  circuit,      \* the circuit under proof, fixed once chosen
  reach,        \* the states seen so far; {} before the search is set up
  fixed,        \* the search has found nothing new
  answer        \* what was last said about an output

avars == <<circuit, reach, fixed, answer>>

NoAnswer == [out |-> 0, ans |-> "none", final |-> FALSE]

(* The successors of a set of states. *)
Post(c, S) == {t \in StateSet : \E s \in S, x \in InputSet : t = c.delta[<<s, x>>]}

(* The least set that holds the initial state and is closed under Post. *)
Inductive(c, S) == InitialState \in S /\ Post(c, S) \subseteq S
ReachableStates(c) ==
  {s \in StateSet : \A S \in SUBSET StateSet : Inductive(c, S) => s \in S}

Raises(c, S, o) == \E s \in S, x \in InputSet : <<s, x>> \in c.mon[o]

AInit ==
  /\ reach = {}
  /\ fixed = FALSE
  /\ answer = NoAnswer

(* The search is set up again from the initial state, or taken down. *)
ASetUp ==
  /\ reach' = {InitialState}
  /\ fixed' = FALSE
  /\ UNCHANGED <<circuit, answer>>

ATakeDown ==
  /\ reach' = {}
  /\ fixed' = FALSE
  /\ UNCHANGED <<circuit, answer>>

(* One more layer of the search, which must add something. *)
AGrow ==
  /\ reach # {}
  /\ ~(Post(circuit, reach) \subseteq reach)
  /\ reach' = reach \union Post(circuit, reach)
  /\ fixed' = FALSE
  /\ UNCHANGED <<circuit, answer>>

(* Nothing new: the search is complete.  Asking again forgets it first. *)
AFix ==
  /\ reach # {}
  /\ Post(circuit, reach) \subseteq reach
  /\ fixed' = TRUE
  /\ UNCHANGED <<circuit, reach, answer>>

AForget ==
  /\ reach # {}
  /\ fixed' = FALSE
  /\ UNCHANGED <<circuit, reach, answer>>

AReport(o) ==
  /\ reach # {}
  /\ answer' = [out |-> o,
                ans |-> IF Raises(circuit, reach, o) THEN "violated" ELSE "safe",
                final |-> fixed]
  /\ UNCHANGED <<circuit, reach, fixed>>

ANext ==
  \/ ASetUp
  \/ ATakeDown
  \/ AGrow
  \/ AFix
  \/ AForget
  \/ \E o \in OutputSet : AReport(o)

ASpec == AInit /\ [][ANext]_avars

=============================================================================
