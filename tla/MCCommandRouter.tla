--------------------------- MODULE MCCommandRouter ---------------------------
(* CommandRouter on small instances. *)
EXTENDS CommandRouter, TLC

CONSTANTS k1, r1

\* The names of the request_ids are immaterial: the first call's is r1.
MCInit == Init /\ requestOf[k1] = r1

MCSpec == MCInit /\ [][Next]_vars /\ Fairness
=============================================================================
