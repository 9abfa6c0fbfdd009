------------------------------ MODULE MCSchema ------------------------------
(***************************************************************************)
(* Schema on every volume, with a few commands and a fault.                *)
(***************************************************************************)
EXTENDS Schema
=============================================================================
