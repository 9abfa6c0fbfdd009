--------------------------- MODULE MCRegistration ---------------------------
(***************************************************************************)
(* Registration on small instances.                                        *)
(***************************************************************************)
EXTENDS Registration
=============================================================================
