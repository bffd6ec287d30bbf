---------------------------- MODULE ClockedRuns ----------------------------
(***************************************************************************)
(* What a user of RAndom Sim is promised: a run starts at power-up, or     *)
(* where the last continued run of the design stopped, and every cycle it  *)
(* prints is one rising edge of the clock.                                 *)
(*                                                                         *)
(* Design[d] is [inputs, regs, power, resetTo, next, ...]: the registers   *)
(* that are 1 at power-up and after reset, and the next registers as a     *)
(* function of the registers and inputs that are 1.                        *)
(***************************************************************************)
EXTENDS Naturals

CONSTANT Design

VARIABLES
    design,      \* the design that is loaded
    running,     \* a run is in progress
    regs,        \* its registers that are 1
    count,       \* the number printed with its last cycle
    kept         \* what the last continued run left, a set of [design, regs, count]

runVars == <<design, running, regs, count, kept>>

RunsInit == ~running /\ regs = {} /\ count = 0 /\ kept = {}

NewDesign ==
    /\ ~running /\ UNCHANGED <<running, regs, count, kept>>

\* A state kept by another design promises nothing but to be counted on.
Begin ==
    /\ ~running /\ running' = TRUE
    /\ \/ regs' = Design[design].power /\ count' = 0
       \/ \E k \in kept : count' = k.count /\ (k.design = design => regs' = k.regs)
    /\ UNCHANGED <<design, kept>>

Tick ==
    /\ running /\ count' = count + 1
    /\ \/ regs' = Design[design].resetTo
       \/ \E in \in SUBSET Design[design].inputs : regs' = Design[design].next[regs \cup in]
    /\ UNCHANGED <<design, running, kept>>

\* What is kept is where the run ended, its count perhaps beyond the cycles
\* there were; a run that is killed may leave nothing for the next one.
End ==
    /\ running /\ running' = FALSE
    /\ regs' = {} /\ count' = 0
    /\ \/ \E k \in kept' : kept' = {k} /\ k.design = design /\ k.regs = regs /\ k.count >= count
       \/ kept' = kept

\* Opening the file for the new state loses the old one.
Lose == running /\ kept' = {} /\ UNCHANGED <<design, running, regs, count>>

RunsNext == NewDesign \/ Begin \/ Tick \/ End \/ Lose

RunsSpec == RunsInit /\ [][RunsNext]_runVars
=============================================================================
