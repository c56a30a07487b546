-------------------------- MODULE MCGatewayLifecycle --------------------------
(* GatewayLifecycle on small instances. *)
EXTENDS GatewayLifecycle, TLC

\* Streams and callers are interchangeable.
Symmetric == Permutations(Streams) \cup Permutations(CallerIDs)
=============================================================================
