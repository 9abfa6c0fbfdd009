---------------------------- MODULE MCLlmFacade ----------------------------
(***************************************************************************)
(* LlmFacade with both services on small instances.                        *)
(***************************************************************************)
EXTENDS LlmFacade, TLC

\* The code never compares two indices but for equality.
Symmetry == Permutations(Indices)
=============================================================================
