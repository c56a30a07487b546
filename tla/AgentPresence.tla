---------------------------- MODULE AgentPresence ----------------------------
(***************************************************************************)
(* What the agent registry promises to those who route commands through    *)
(* GetConnectedStream: which stream, if any, reaches each caller_id, and   *)
(* how that may change.  AgentStreams implements this specification, and   *)
(* CommandRouter is built on it.                                           *)
(***************************************************************************)
CONSTANTS CallerIDs, Streams, NoStream, NoCaller

VARIABLES
  presence,   \* caller_id -> the stream GetConnectedStream returns
  owner       \* stream -> the caller_id it was registered for

presenceVars == <<presence, owner>>

PresenceInit ==
  /\ presence = [c \in CallerIDs |-> NoStream]
  /\ owner = [s \in Streams |-> NoCaller]

\* A stream is registered: for a free caller_id, or in place of its stream.
Appear(c, s) ==
  /\ owner[s] = NoCaller
  /\ owner' = [owner EXCEPT ![s] = c]
  /\ presence' = [presence EXCEPT ![c] = s]

\* Agents are disconnected: one by its handler, several by the monitor.
Vanish ==
  /\ \E gone \in SUBSET CallerIDs :
       presence' = [c \in CallerIDs |-> IF c \in gone THEN NoStream ELSE presence[c]]
  /\ UNCHANGED owner

PresenceNext == Vanish \/ \E c \in CallerIDs, s \in Streams : Appear(c, s)

PresenceSpec == PresenceInit /\ [][PresenceNext]_presenceVars

\* A caller_id is only ever reached through a stream registered for it.
RoutesToOwner ==
  \A c \in CallerIDs : presence[c] # NoStream => owner[presence[c]] = c
=============================================================================
