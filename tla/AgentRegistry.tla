---------------------------- MODULE AgentRegistry ----------------------------
(***************************************************************************)
(* The in-memory store of agents of kd-gateway                             *)
(* (internal/core/agent/registry/registry.go).  Every method holds the     *)
(* registry's mutex from its first statement to its return, so each one is *)
(* a single step: an action here, that other modules conjoin with what the *)
(* calling goroutine does.                                                 *)
(*                                                                         *)
(* A registration creates one evict channel and hands it to the goroutine  *)
(* of the stream being registered.  A stream registers at most once, so    *)
(* the channel is named by its stream: evictChans[c] = s says that the map *)
(* holds the channel made for s, and s \in closed that it was closed.      *)
(*                                                                         *)
(* Of time.Now() and LastSeenAt only their difference is ever compared,    *)
(* and only with the TTL: `idle' is that difference, in clock ticks, and   *)
(* it stops at TTL + 1, beyond which every value is stale alike.           *)
(***************************************************************************)
EXTENDS Naturals

CONSTANTS
  CallerIDs,   \* the caller_id values agents report in AgentHello
  Streams,     \* the AgentStream RPCs that are opened, one name per RPC
  NoStream,    \* the nil stream, and the absence of an evict channel
  TTL          \* heartbeat.ttl, in clock ticks

ASSUME RegistryAssumption ==
  /\ NoStream \notin Streams
  /\ TTL \in Nat

VARIABLES
  agents,      \* caller_id -> entry; status "absent" stands for no entry
  evictChans,  \* caller_id -> the stream whose evict channel the map holds
  closed       \* the streams whose evict channel has been closed

registryVars == <<agents, evictChans, closed>>

Absent == [status |-> "absent", stream |-> NoStream, idle |-> 0]
Fresh(s) == [status |-> "connected", stream |-> s, idle |-> 0]
Disconnected == [status |-> "disconnected", stream |-> NoStream, idle |-> 0]

\* The entries there are.  Stream "is nil when Status == StatusDisconnected"
\* (entity/agent.go:28); idle is compared on connected entries only.
Agent ==
  [status : {"connected"}, stream : Streams, idle : 0 .. TTL + 1]
    \cup {Absent, Disconnected}

RegistryTypeOK ==
  /\ agents \in [CallerIDs -> Agent]
  /\ evictChans \in [CallerIDs -> Streams \cup {NoStream}]
  /\ closed \subseteq Streams

-----------------------------------------------------------------------------
\* Mutant: the status changes and the stream stays.
Dropped_KeepsStream(a) == [a EXCEPT !.status = "disconnected"]

\* Status = StatusDisconnected and Stream = nil, on an entry that exists.
Dropped(a) == IF a = Absent THEN a ELSE Disconnected

Connected(c) == agents[c].status = "connected"

Stale(c) == Connected(c) /\ agents[c].idle > TTL

\* GetConnectedStream: the stream a command for c would be sent on, if any.
ConnectedStream(c) == IF Connected(c) THEN agents[c].stream ELSE NoStream

-----------------------------------------------------------------------------
New ==
  /\ agents = [c \in CallerIDs |-> Absent]
  /\ evictChans = [c \in CallerIDs |-> NoStream]
  /\ closed = {}

\* The entry and the channel that both registering methods write.
Enter(c, s) ==
  /\ agents' = [agents EXCEPT ![c] = Fresh(s)]
  /\ evictChans' = [evictChans EXCEPT ![c] = s]

Register(c, s) ==
  /\ ~ Connected(c)
  /\ Enter(c, s)
  /\ UNCHANGED closed

\* Register's other outcome, ErrAlreadyConnected.
RegisterConflict(c) ==
  /\ Connected(c)
  /\ UNCHANGED registryVars

\* Mutant: the new channel is stored before the one in the map is closed.
ForceRegister_ClosesNew(c, s) ==
  /\ Enter(c, s)
  /\ closed' = IF Connected(c) THEN closed \cup {s} ELSE closed

\* Mutant: the closed channel stays in the map.
ForceRegister_KeepsChannel(c, s) ==
  /\ agents' = [agents EXCEPT ![c] = Fresh(s)]
  /\ evictChans' = [evictChans EXCEPT ![c] = IF @ = NoStream THEN s ELSE @]
  /\ closed' = IF Connected(c) THEN closed \cup ({evictChans[c]} \ {NoStream}) ELSE closed

ForceRegister(c, s) ==
  /\ Enter(c, s)
  /\ closed' = IF Connected(c)
                 THEN closed \cup ({evictChans[c]} \ {NoStream})
                 ELSE closed

Deregister(c) ==
  /\ agents' = [agents EXCEPT ![c] = Dropped(@)]
  /\ evictChans' = [evictChans EXCEPT ![c] = NoStream]
  /\ UNCHANGED closed

TouchHeartbeat(c) ==
  /\ agents' = IF Connected(c) THEN [agents EXCEPT ![c].idle = 0] ELSE agents
  /\ UNCHANGED <<evictChans, closed>>

\* Mutant: the loop changes copies of the entries.
ExpireStale_OnCopies ==
  /\ evictChans' = [c \in CallerIDs |-> IF Stale(c) THEN NoStream ELSE evictChans[c]]
  /\ UNCHANGED <<agents, closed>>

\* Mutant: the channel of an expired entry stays in the map.
ExpireStale_KeepsChannel ==
  /\ agents' = [c \in CallerIDs |-> IF Stale(c) THEN Dropped(agents[c]) ELSE agents[c]]
  /\ UNCHANGED <<evictChans, closed>>

\* Mutant: expiry evicts.
ExpireStale_Closes ==
  /\ agents' = [c \in CallerIDs |-> IF Stale(c) THEN Dropped(agents[c]) ELSE agents[c]]
  /\ evictChans' = [c \in CallerIDs |-> IF Stale(c) THEN NoStream ELSE evictChans[c]]
  /\ closed' = closed \cup {agents[c].stream : c \in {d \in CallerIDs : Stale(d)}}

\* The channel of an expired entry leaves the map and stays open.
ExpireStale ==
  /\ agents' = [c \in CallerIDs |-> IF Stale(c) THEN Dropped(agents[c]) ELSE agents[c]]
  /\ evictChans' = [c \in CallerIDs |-> IF Stale(c) THEN NoStream ELSE evictChans[c]]
  /\ UNCHANGED closed

\* The clock: one more tick since every connected agent's last frame.
Older(a) ==
  IF a.status = "connected" /\ a.idle <= TTL THEN [a EXCEPT !.idle = @ + 1] ELSE a

Tick ==
  /\ agents' = [c \in CallerIDs |-> Older(agents[c])]
  /\ UNCHANGED <<evictChans, closed>>
=============================================================================
