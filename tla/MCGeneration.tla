---------------------------- MODULE MCGeneration ----------------------------
(***************************************************************************)
(* Generation on small instances: one configuration per set of faults.     *)
(***************************************************************************)
EXTENDS Generation, TLC

\* Pool processes are interchangeable; sound for the configurations that check
\* no liveness property.
Symmetry == Permutations(Workers)
=============================================================================
