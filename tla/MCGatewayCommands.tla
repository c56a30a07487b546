-------------------------- MODULE MCGatewayCommands --------------------------
(* GatewayCommands on small instances. *)
EXTENDS GatewayCommands, TLC
=============================================================================
