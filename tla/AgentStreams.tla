----------------------------- MODULE AgentStreams -----------------------------
(***************************************************************************)
(* The AgentStream handlers of kd-gateway over the shared registry:        *)
(* internal/core/agent/handler/grpc_handler.go, with the heartbeat monitor *)
(* (internal/core/agent/heartbeat/monitor.go) and the clock.               *)
(*                                                                         *)
(* Every stream s \in Streams is one AgentStream RPC, served by two        *)
(* goroutines: the handler, whose control state is pc[s], and the reader   *)
(* it spawns to turn stream.Recv() into the channel recvCh, whose control  *)
(* state is reader[s].  link[s] is what the transport does for s: the      *)
(* agent at its other end is external.                                     *)
(*                                                                         *)
(* pc[s]:  "first"     in the first Recv, no frame handled yet             *)
(*         "register"  hello accepted, about to call Register              *)
(*         "force"     Register said ErrAlreadyConnected, policy evicts    *)
(*         "loop"      registered, at the select of the stream loop        *)
(*         "leaving"   returning: done is closed, the deferred             *)
(*                     deregistration has not run                          *)
(*         "ended"     the handler has returned code[s]                    *)
(***************************************************************************)
EXTENDS AgentRegistry

CONSTANTS
  NoCaller,    \* caller_id of a stream whose hello has not been accepted
  Policy,      \* agent.duplicate_policy
  Payloads,    \* what an agent may send besides heartbeats: the results of
               \* commands, and payloads the loop does not know
  Ends         \* the ways Recv may fail: "closed" where isStreamClosed holds
               \* (EOF, Canceled, DeadlineExceeded), "failed" for other errors

ASSUME StreamsAssumption ==
  /\ NoCaller \notin CallerIDs
  /\ Policy \in {"evict_previous", "reject_new"}
  /\ Ends \subseteq {"closed", "failed"}
  /\ Payloads \cap {"heartbeat", "closed", "failed", "empty"} = {}

VARIABLES
  pc, caller, code,    \* the handler goroutine
  reader, held,        \* the reader goroutine and the result it carries
  recvCh,              \* the one-place buffer between the two
  link                 \* what Recv can find on the wire

handlerVars == <<pc, caller, code>>
readerVars == <<reader, held>>
vars == <<agents, evictChans, closed, pc, caller, code, reader, held, recvCh, link>>

Frames == {"heartbeat"} \cup Payloads

\* What a receive on recvCh yields; "closed" and "failed" carry an error.
Errors == {"closed", "failed"}
Items == Frames \cup Errors
Empty == "empty"

Live(s) == pc[s] \in {"loop", "leaving"}

TypeOK ==
  /\ RegistryTypeOK
  /\ pc \in [Streams -> {"first", "register", "force", "loop", "leaving", "ended"}]
  /\ caller \in [Streams -> CallerIDs \cup {NoCaller}]
  /\ code \in [Streams -> {"none", "OK", "Internal", "InvalidArgument",
                           "AlreadyExists", "Aborted"}]
  /\ reader \in [Streams -> {"off", "recv", "offer", "exit"}]
  /\ held \in [Streams -> Items \cup {Empty}]
  /\ recvCh \in [Streams -> Items \cup {Empty}]
  /\ link \in [Streams -> {"up", "silent"} \cup Errors]

Init ==
  /\ New
  /\ pc = [s \in Streams |-> "first"]
  /\ caller = [s \in Streams |-> NoCaller]
  /\ code = [s \in Streams |-> "none"]
  /\ reader = [s \in Streams |-> "off"]
  /\ held = [s \in Streams |-> Empty]
  /\ recvCh = [s \in Streams |-> Empty]
  /\ link = [s \in Streams |-> "up"]

-----------------------------------------------------------------------------
(* The handler goroutine up to the stream loop.                            *)

Goto(s, label) == pc' = [pc EXCEPT ![s] = label]

Return(s, label, status) ==
  /\ Goto(s, label)
  /\ code' = [code EXCEPT ![s] = status]

\* The first Recv fails, or its frame is no hello or has no caller_id.
RefuseFirst(s) ==
  /\ pc[s] = "first"
  /\ \E status \in {"Internal", "InvalidArgument"} : Return(s, "ended", status)
  /\ UNCHANGED <<registryVars, caller, readerVars, recvCh, link>>

AcceptHello(s, c) ==
  /\ pc[s] = "first"
  /\ Goto(s, "register")
  /\ caller' = [caller EXCEPT ![s] = c]
  /\ UNCHANGED <<registryVars, code, readerVars, recvCh, link>>

\* Once registered, the handler starts the reader and enters the loop.
EnterLoop(s) ==
  /\ Goto(s, "loop")
  /\ reader' = [reader EXCEPT ![s] = "recv"]
  /\ UNCHANGED <<caller, code, held, recvCh, link>>

RegisterFree(s) ==
  /\ pc[s] = "register"
  /\ Register(caller[s], s)
  /\ EnterLoop(s)

\* Mutant: the rejected handler runs the deferred deregistration too.
RegisterTaken_Defers(s) ==
  /\ pc[s] = "register"
  /\ RegisterConflict(caller[s])
  /\ IF Policy = "evict_previous"
       THEN Goto(s, "force") /\ UNCHANGED code
       ELSE Return(s, "leaving", "AlreadyExists")
  /\ UNCHANGED <<caller, readerVars, recvCh, link>>

RegisterTaken(s) ==
  /\ pc[s] = "register"
  /\ RegisterConflict(caller[s])
  /\ IF Policy = "evict_previous"
       THEN Goto(s, "force") /\ UNCHANGED code
       ELSE Return(s, "ended", "AlreadyExists")
  /\ UNCHANGED <<caller, readerVars, recvCh, link>>

\* A second critical section: the entry may have changed since Register.
RegisterByForce(s) ==
  /\ pc[s] = "force"
  /\ ForceRegister(caller[s], s)
  /\ EnterLoop(s)

-----------------------------------------------------------------------------
(* The stream loop: a select over the evict channel and recvCh.  When both *)
(* are ready, Go takes either.                                             *)

\* Mutant: the evict channel is only looked at between frames.
TakeEvict_BetweenFrames(s) ==
  /\ pc[s] = "loop"
  /\ s \in closed
  /\ recvCh[s] # Empty
  /\ Return(s, "leaving", "Aborted")
  /\ UNCHANGED <<registryVars, caller, readerVars, recvCh, link>>

TakeEvict(s) ==
  /\ pc[s] = "loop"
  /\ s \in closed
  /\ Return(s, "leaving", "Aborted")
  /\ UNCHANGED <<registryVars, caller, readerVars, recvCh, link>>

\* The loop empties recvCh of something in `items'.
FromReader(s, items) ==
  /\ pc[s] = "loop"
  /\ recvCh[s] \in items
  /\ recvCh' = [recvCh EXCEPT ![s] = Empty]

\* Mutant: a heartbeat brings a disconnected entry back.
TakeHeartbeat_Revives(s) ==
  /\ FromReader(s, {"heartbeat"})
  /\ IF Connected(caller[s])
       THEN TouchHeartbeat(caller[s])
       ELSE Enter(caller[s], s) /\ UNCHANGED closed
  /\ UNCHANGED <<handlerVars, readerVars, link>>

TakeHeartbeat(s) ==
  /\ FromReader(s, {"heartbeat"})
  /\ TouchHeartbeat(caller[s])
  /\ UNCHANGED <<handlerVars, readerVars, link>>

\* Other payloads leave the registry and the handler as they are; what becomes of
\* a command result is modelled in GatewayCommands.
TakeOther(s) ==
  /\ FromReader(s, Payloads)
  /\ UNCHANGED <<registryVars, handlerVars, readerVars, link>>

TakeEnd(s) ==
  /\ FromReader(s, Errors)
  /\ Return(s, "leaving", IF recvCh[s] = "closed" THEN "OK" ELSE "Internal")
  /\ UNCHANGED <<registryVars, caller, readerVars, link>>

\* Mutant: a stream the agent closed is not deregistered.
Leave_OnErrorOnly(s) ==
  /\ pc[s] = "leaving"
  /\ Goto(s, "ended")
  /\ IF code[s] # "Internal" THEN UNCHANGED registryVars ELSE Deregister(caller[s])
  /\ UNCHANGED <<caller, code, readerVars, recvCh, link>>

\* Mutant: the evicted flag is not looked at.
Leave_EvictedToo(s) ==
  /\ pc[s] = "leaving"
  /\ Goto(s, "ended")
  /\ Deregister(caller[s])
  /\ UNCHANGED <<caller, code, readerVars, recvCh, link>>

\* The deferred function, skipped by the evicted flag, which is set exactly
\* where the handler returns Aborted.
Leave(s) ==
  /\ pc[s] = "leaving"
  /\ Goto(s, "ended")
  /\ IF code[s] = "Aborted" THEN UNCHANGED registryVars ELSE Deregister(caller[s])
  /\ UNCHANGED <<caller, code, readerVars, recvCh, link>>

-----------------------------------------------------------------------------
(* The reader goroutine.                                                   *)

Received(s, item) ==
  /\ reader[s] = "recv"
  /\ reader' = [reader EXCEPT ![s] = "offer"]
  /\ held' = [held EXCEPT ![s] = item]
  /\ UNCHANGED <<registryVars, handlerVars, recvCh, link>>

ReceiveFrame(s) ==
  /\ link[s] = "up"
  /\ \E f \in Frames : Received(s, f)

\* Recv fails when the link has ended, and when the handler has returned: gRPC
\* then cancels the stream's context.
ReceiveEnd(s) ==
  \/ link[s] \in Errors /\ Received(s, link[s])
  \/ pc[s] = "ended" /\ Received(s, "closed")

Offer(s) ==
  /\ reader[s] = "offer"
  /\ recvCh[s] = Empty
  /\ recvCh' = [recvCh EXCEPT ![s] = held[s]]
  /\ reader' = [reader EXCEPT ![s] = IF held[s] \in Errors THEN "exit" ELSE "recv"]
  /\ held' = [held EXCEPT ![s] = Empty]
  /\ UNCHANGED <<registryVars, handlerVars, link>>

\* Mutant: done is only seen while there is room in recvCh.
Quit_WithRoom(s) ==
  /\ reader[s] = "offer"
  /\ pc[s] \in {"leaving", "ended"}
  /\ recvCh[s] = Empty
  /\ reader' = [reader EXCEPT ![s] = "exit"]
  /\ held' = [held EXCEPT ![s] = Empty]
  /\ UNCHANGED <<registryVars, handlerVars, recvCh, link>>

\* The other case of the reader's select: done is closed.
Quit(s) ==
  /\ reader[s] = "offer"
  /\ pc[s] \in {"leaving", "ended"}
  /\ reader' = [reader EXCEPT ![s] = "exit"]
  /\ held' = [held EXCEPT ![s] = Empty]
  /\ UNCHANGED <<registryVars, handlerVars, recvCh, link>>

-----------------------------------------------------------------------------
(* The agent and the transport.  Nothing depends on the link of a stream   *)
(* that is not in its loop.                                                *)

LinkChanges(s, from, to) ==
  /\ pc[s] = "loop"
  /\ link[s] \in from
  /\ \E l \in to : link' = [link EXCEPT ![s] = l]
  /\ UNCHANGED <<registryVars, handlerVars, readerVars, recvCh>>

\* The agent is gone and the transport does not know: Recv just blocks.
GoSilent(s) == LinkChanges(s, {"up"}, {"silent"})

LinkEnds(s) == LinkChanges(s, {"up", "silent"}, Ends)

-----------------------------------------------------------------------------
(* The heartbeat monitor and the clock.                                    *)

MonitorTick == ExpireStale /\ UNCHANGED <<handlerVars, readerVars, recvCh, link>>

ClockTick == Tick /\ UNCHANGED <<handlerVars, readerVars, recvCh, link>>

-----------------------------------------------------------------------------
Handler(s) ==
  \/ RegisterFree(s) \/ RegisterTaken(s) \/ RegisterByForce(s)
  \/ TakeEvict(s) \/ TakeHeartbeat(s) \/ TakeOther(s) \/ TakeEnd(s) \/ Leave(s)

Reader(s) == ReceiveEnd(s) \/ Offer(s) \/ Quit(s)

Client(s) ==
  \/ RefuseFirst(s)
  \/ \E c \in CallerIDs : AcceptHello(s, c)
  \/ ReceiveFrame(s)
  \/ GoSilent(s)
  \/ LinkEnds(s)

StreamStep(s) == Handler(s) \/ Reader(s) \/ Client(s)

Next == MonitorTick \/ ClockTick \/ \E s \in Streams : StreamStep(s)

Safety == Init /\ [][Next]_vars

\* The same system while every heartbeat is on time: no entry becomes stale.
TimelyTick == ClockTick /\ \A c \in CallerIDs : ~ Stale(c)'

TimelyNext == MonitorTick \/ TimelyTick \/ \E s \in Streams : StreamStep(s)

Timely == Init /\ [][TimelyNext]_vars

\* The scheduler runs every goroutine that can move, the monitor's ticker keeps
\* firing and time passes.  Go's select picks uniformly among ready cases, so
\* the evict case is not passed over for ever.  Agents owe the gateway nothing:
\* no fairness on frames, and a silent link may stay silent.
Fairness ==
  /\ WF_vars(MonitorTick)
  /\ WF_vars(ClockTick)
  /\ \A s \in Streams :
       WF_vars(Handler(s)) /\ SF_vars(TakeEvict(s)) /\ WF_vars(Reader(s))

Spec == Safety /\ Fairness

-----------------------------------------------------------------------------
(* What the rest of the gateway sees of all this: AgentPresence.  A stream *)
(* has been registered once its reader has been started.                   *)

Presence ==
  INSTANCE AgentPresence WITH
    presence <- [c \in CallerIDs |-> ConnectedStream(c)],
    owner <- [s \in Streams |-> IF reader[s] = "off" THEN NoCaller ELSE caller[s]]

\* The handlers, the monitor and the registry together implement AgentPresence:
\* a stream becomes routable once, for one caller_id, and for no other after it.
ImplementsPresence == Presence!PresenceSpec

-----------------------------------------------------------------------------
(* Properties.                                                             *)

\* A caller is connected exactly when the map holds an evict channel for it,
\* and that channel is the one handed to the goroutine of the stream the entry
\* names: whoever takes the caller over signals the right goroutine
\* (registry.go Register, ForceRegister, Deregister, ExpireStale).
EvictChannelMatchesEntry ==
  \A c \in CallerIDs : evictChans[c] = ConnectedStream(c)

\* No channel in the map has been closed, so the close() in ForceRegister never
\* closes a channel twice, which would panic under the registry's lock.
NoDoubleClose == \A c \in CallerIDs : evictChans[c] \notin closed

\* The stream of a connected entry said hello as that caller, and its handler
\* has not returned: a command is never routed into an RPC that is over, by
\* whichever of the ways out of the loop the handler left.
RegistryServesLiveStreams ==
  \A c \in CallerIDs : Connected(c) =>
    LET s == agents[c].stream IN s \in Streams /\ caller[s] = c /\ Live(s)

\* A handler that was told Aborted was evicted, and its entry has gone to another.
AbortedLostEntry ==
  \A s \in Streams : code[s] = "Aborted" =>
    s \in closed /\ \A c \in CallerIDs : agents[c].stream # s

\* A channel is closed only in the step that hands its caller_id, connected until
\* then, from the stream it was made for to another one.
EvictionHandsOver ==
  [][\A s \in closed' \ closed :
       /\ agents[caller[s]].stream = s
       /\ \E t \in Streams \ {s} : agents'[caller[s]] = Fresh(t)]_vars

\* An entry that leaves a stream leaves it for a reason: the handler of that very
\* stream is returning, its heartbeats are overdue, or a newcomer evicts it; or a
\* handler of the same caller_id, which has lost the entry before, returns for
\* another reason than its eviction.  One that answers Aborted never harms whoever
\* took its place (evicted flag, grpc_handler.go:108-126).
LossIsExplained ==
  [][\A c \in CallerIDs : Connected(c) /\ agents'[c].stream # agents[c].stream =>
       \/ pc[agents[c].stream] = "leaving"
       \/ agents[c].idle > TTL
       \/ agents[c].stream \in closed'
       \/ \E t \in Streams : pc[t] = "leaving" /\ caller[t] = c /\ code[t] # "Aborted"]_vars

\* "if the old handler was evicted it will already have set evicted=true and skip
\* calling Deregister" (registry.go:124-125).
EvictedSkipsDeregister ==
  \A s \in Streams : pc[s] = "leaving" /\ s \in closed => code[s] = "Aborted"

\* Every handler of c between its registration and its deregistration owns the entry,
\* so no two of them serve one agent.
Exclusive(c) == \A s \in Streams : Live(s) /\ caller[s] = c => ConnectedStream(c) = s

\* What reject_new is for: however registrations, heartbeats and departures of the
\* streams of a caller_id interleave, nothing but the expiry of its entry leaves it with
\* a handler that does not own it (registry.go:51-76, 127-136, 216-233; the stream that
\* expired is not told and goes on).
ExclusiveUntilExpiry ==
  [][\A c \in CallerIDs :
       Exclusive(c) /\ ~ Exclusive(c)' => Stale(c) /\ ~ Connected(c)']_vars

\* A handler whose evict channel is closed returns.
EvictedStreamEnds == \A s \in Streams : (s \in closed) ~> (pc[s] = "ended")

\* Once its handler has returned, a reader goroutine exits: whatever it holds and
\* however full recvCh is left.
ReaderTerminates ==
  \A s \in Streams : (pc[s] = "ended") ~> (reader[s] \in {"off", "exit"})

\* An agent that vanished without closing its stream loses its entry, unless
\* another stream of the same caller_id is still in its loop: that one's
\* heartbeats count for the entry too (TouchHeartbeat goes by caller_id).
SilentAgentIsDropped ==
  \A s \in Streams, c \in CallerIDs :
    (agents[c].stream = s /\ link[s] = "silent")
      ~> (agents[c].stream # s \/ \E t \in Streams \ {s} : caller[t] = c /\ Live(t))
=============================================================================
