---------------------------- MODULE MCWsGateway -----------------------------
(***************************************************************************)
(* Small instances of WsGateway; the bounds are in the configurations.     *)
(***************************************************************************)
EXTENDS WsGateway
=============================================================================
