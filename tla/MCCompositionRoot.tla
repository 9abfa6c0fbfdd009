-------------------------- MODULE MCCompositionRoot --------------------------
(***************************************************************************)
(* CompositionRoot in every process, the backend with up to two threads. *)
(***************************************************************************)
EXTENDS CompositionRoot
=============================================================================
