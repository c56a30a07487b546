---------------------------- MODULE MCAgentStreams ----------------------------
(* AgentStreams on small instances. *)
EXTENDS AgentStreams, TLC

\* Streams and callers are interchangeable; used where no liveness is checked.
Symmetric == Permutations(Streams) \cup Permutations(CallerIDs)
=============================================================================
