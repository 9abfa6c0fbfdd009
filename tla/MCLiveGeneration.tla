-------------------------- MODULE MCLiveGeneration --------------------------
(***************************************************************************)
(* Small instances of LiveGeneration; the bounds are in the configurations.*)
(***************************************************************************)
EXTENDS LiveGeneration
=============================================================================
