-------------------------- MODULE MCWorkerProcess ---------------------------
(***************************************************************************)
(* WorkerProcess on small instances.                                       *)
(***************************************************************************)
EXTENDS WorkerProcess
=============================================================================
