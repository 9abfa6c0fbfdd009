------------------------------ MODULE MCSignIn ------------------------------
(***************************************************************************)
(* Small instances of SignIn; the bounds are in the configurations.        *)
(***************************************************************************)
EXTENDS SignIn
=============================================================================
