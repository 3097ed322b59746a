---------------------------- MODULE MCMachineIO -----------------------------
(***************************************************************************)
(* MachineIO.tla for TLC.                                                  *)
(***************************************************************************)
EXTENDS IOCorrectness, TLC

\* The threads other than the idle and the main one are interchangeable.
Callers == Permutations(Thread \ {Main, Idle})

=============================================================================
