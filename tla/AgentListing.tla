---------------------------- MODULE AgentListing ----------------------------
(***************************************************************************)
(* What GET /api/v1/agents promises its clients: "a snapshot of all agents *)
(* (connected and disconnected)" (list.go:30).  A list is what the         *)
(* registry showed at one moment between request and answer, and a         *)
(* caller_id that was once shown stays in every later list.                *)
(* GatewayRequests implements this specification.                          *)
(***************************************************************************)
CONSTANTS
  CallerIDs, Requests,
  Unknown    \* in place of the row of a caller_id nobody has registered

VARIABLES
  shown,   \* caller_id -> the row a list made at once would have
  taken,   \* request -> the set of the list it will answer, once that is settled
  told     \* request -> the set of the list it has answered

listingVars == <<shown, taken, told>>

ListingInit ==
  /\ shown = [c \in CallerIDs |-> Unknown]
  /\ taken = [r \in Requests |-> {}]
  /\ told = [r \in Requests |-> {}]

\* Agents register, disconnect and change their metadata; none is forgotten.
AgentsMove ==
  /\ \A c \in CallerIDs : shown[c] # Unknown => shown'[c] # Unknown
  /\ UNCHANGED <<taken, told>>

Take(r) ==
  /\ taken[r] = {}
  /\ taken' = [taken EXCEPT ![r] = {shown}]
  /\ UNCHANGED <<shown, told>>

Tell(r) ==
  /\ taken[r] # {}
  /\ told[r] = {}
  /\ told' = [told EXCEPT ![r] = taken[r]]
  /\ UNCHANGED <<shown, taken>>

\* The request is over; another may follow.
Done(r) ==
  /\ told[r] # {}
  /\ taken' = [taken EXCEPT ![r] = {}]
  /\ told' = [told EXCEPT ![r] = {}]
  /\ UNCHANGED shown

ListingNext == AgentsMove \/ \E r \in Requests : Take(r) \/ Tell(r) \/ Done(r)

ListingSpec == ListingInit /\ [][ListingNext]_listingVars
=============================================================================
