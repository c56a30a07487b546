----------------------------- MODULE GatewayProofs -----------------------------
(***************************************************************************)
(* Theorems about GatewayLifecycle, for every set of callers and streams,  *)
(* every TTL, both duplicate policies and all timeouts.  What the handlers *)
(* guarantee among themselves is taken from AgentStreamsProofs: a step of  *)
(* the gateway is a step of AgentStreams, a stutter of it, or ForceStop.   *)
(***************************************************************************)
EXTENDS GatewayLifecycle, AgentStreamsProofs

USE RegistryAssumption, StreamsAssumption, TimeoutAssumption DEF Connected

\* The steps in which fx and the servers move and AgentStreams does not.
Aside ==
  \/ Build \/ BuildFails \/ StartGrpc \/ StartHttp \/ StartMonitor
  \/ Signal \/ StopMonitor \/ StopHttp \/ HttpStopped \/ HttpStopTimesOut
  \/ StopGrpc \/ GrpcStopped \/ Exit \/ GiveUp
  \/ (\E s \in Streams : OpenStream(s))
  \/ MonitorReturns \/ RequestBegins \/ RequestEnds

LEMMA AsideStutters == Aside => UNCHANGED vars
BY DEF Aside, Build, BuildFails, StartGrpc, StartHttp, StartMonitor, Started, Signal,
  StopMonitor, StopHttp, HttpStopped, HttpStopTimesOut, StopGrpc, GrpcStopped, Exit,
  GiveUp, OpenStream, MonitorReturns, RequestBegins, RequestEnds

LEMMA GatewaySteps ==
  GatewayNext <=>
    \/ Aside \/ ForceStop
    \/ (\E s \in Streams : StreamRuns(s)) \/ MonitorRuns \/ TimePasses
BY DEF GatewayNext, Fx, Aside

-----------------------------------------------------------------------------
(* The handlers' invariant survives in the gateway.                        *)

\* Stop only touches the links, of which Ownership asks nothing but the type.
LEMMA ForceStopKeeps == Ownership /\ ForceStop => Ownership'
BY DEF ForceStop, Ownership, TypeOK, RegistryTypeOK, CallerKnown, Errors, registryVars,
  handlerVars, readerVars, EvictChannelMatchesEntry, ConnectedStream, Live,
  RegistryServesLiveStreams, UnregisteredUnknown, ClosedLostEntry, AbortedClosed

LEMMA HandlersStep == Ownership /\ [GatewayNext]_gatewayVars => Ownership'
<1> SUFFICES ASSUME Ownership, [GatewayNext]_gatewayVars PROVE Ownership'
  OBVIOUS
<1>1. CASE ForceStop
  BY <1>1, ForceStopKeeps
<1>2. CASE Aside \/ UNCHANGED gatewayVars
  <2>1. UNCHANGED vars
    BY <1>2, AsideStutters DEF gatewayVars
  <2> QED
    BY <2>1, OwnershipStep
<1>3. CASE (\E s \in Streams : StreamRuns(s)) \/ MonitorRuns \/ TimePasses
  <2>1. Next
    BY <1>3 DEF StreamRuns, MonitorRuns, TimePasses, Next
  <2> QED
    BY <2>1, OwnershipStep
<1> QED
  BY <1>1, <1>2, <1>3, GatewaySteps

-----------------------------------------------------------------------------
(* The gateway keeps what the handlers promise to those who route commands.*)

LEMMA PresenceKept ==
  Ownership /\ [GatewayNext]_gatewayVars => [Presence!PresenceNext]_(Presence!presenceVars)
<1> SUFFICES ASSUME Ownership, [GatewayNext]_gatewayVars
             PROVE  [Presence!PresenceNext]_(Presence!presenceVars)
  OBVIOUS
<1>1. CASE ForceStop
  BY <1>1 DEF ForceStop, registryVars, handlerVars, readerVars, Presence!presenceVars,
    ConnectedStream
<1>2. CASE ~ ForceStop
  <2>1. [Next]_vars
    BY <1>2, GatewaySteps, AsideStutters DEF StreamRuns, MonitorRuns, TimePasses, Next,
      gatewayVars
  <2> QED
    BY <2>1, StepRefines
<1> QED
  BY <1>1, <1>2

\* The gateway implements AgentPresence from its construction to its exit, through
\* both ways of stopping.
THEOREM GatewayKeepsPresence == GatewaySpec => ImplementsPresence
<1>1. GatewayInit => Presence!PresenceInit /\ Ownership
  BY OwnershipInit DEF GatewayInit, Init, New, Presence!PresenceInit, ConnectedStream, Absent
<1> QED
  BY <1>1, PresenceKept, HandlersStep, PTL
  DEF GatewaySpec, ImplementsPresence, Presence!PresenceSpec

\* ForceStop is the one step of the gateway that AgentStreams does not take.
LEMMA StreamsMove ==
  [GatewayNext]_gatewayVars /\ ~ ForceStop => [Next]_vars
BY GatewaySteps, AsideStutters DEF StreamRuns, MonitorRuns, TimePasses, Next, gatewayVars

LEMMA HandlersInvariant == GatewaySpec => []Ownership
<1>1. GatewayInit => Ownership
  BY OwnershipInit DEF GatewayInit
<1> QED
  BY <1>1, HandlersStep, PTL DEF GatewaySpec

\* What the handlers keep among themselves they keep in a gateway that is built,
\* serves and stops, by force as well.
THEOREM GatewayKeepsInvariants ==
  GatewaySpec =>
    [](EvictChannelMatchesEntry /\ NoDoubleClose /\ RegistryServesLiveStreams /\ AbortedLostEntry)
<1>1. Ownership => EvictChannelMatchesEntry /\ RegistryServesLiveStreams
  BY DEF Ownership
<1>2. Ownership => NoDoubleClose
  BY DEF Ownership, NoDoubleClose, EvictChannelMatchesEntry, ConnectedStream, ClosedLostEntry,
    TypeOK, RegistryTypeOK
<1>3. Ownership => AbortedLostEntry
  BY DEF Ownership, AbortedLostEntry, AbortedClosed, ClosedLostEntry
<1> QED
  BY <1>1, <1>2, <1>3, HandlersInvariant, PTL

\* Streams are evicted by a newcomer only and lose their entries for the known reasons
\* in the gateway too: a stop adds no reason.
THEOREM GatewayKeepsEntries ==
  GatewaySpec => EvictionHandsOver /\ LossIsExplained
<1>1. Ownership /\ [GatewayNext]_gatewayVars =>
        [\A s \in closed' \ closed :
           /\ agents[caller[s]].stream = s
           /\ \E t \in Streams \ {s} : agents'[caller[s]] = Fresh(t)]_vars
  <2>1. ForceStop => closed' = closed
    BY DEF ForceStop, registryVars
  <2> QED
    BY <2>1, HandoverStep, StreamsMove
<1>2. Ownership /\ [GatewayNext]_gatewayVars =>
        [\A c \in CallerIDs : Connected(c) /\ agents'[c].stream # agents[c].stream =>
           \/ pc[agents[c].stream] = "leaving"
           \/ agents[c].idle > TTL
           \/ agents[c].stream \in closed'
           \/ \E t \in Streams : pc[t] = "leaving" /\ caller[t] = c /\ code[t] # "Aborted"]_vars
  <2>1. ForceStop => agents' = agents
    BY DEF ForceStop, registryVars
  <2> QED
    BY <2>1, LossStep, StreamsMove
<1> QED
  BY <1>1, <1>2, HandlersInvariant, PTL
  DEF GatewaySpec, EvictionHandsOver, LossIsExplained

-----------------------------------------------------------------------------
(* reject_new in the gateway.                                              *)

\* Nothing that starts or stops the gateway makes two handlers share a caller_id under
\* reject_new: that still takes an expiry.
THEOREM GatewayRejectsNew ==
  ASSUME Policy = "reject_new"
  PROVE  GatewaySpec => ExclusiveUntilExpiry
<1>1. GatewayInit => Unforced
  BY UnforcedInit DEF GatewayInit
<1>2. ForceStop => UNCHANGED <<registryVars, pc, caller>>
  BY DEF ForceStop, handlerVars
<1>3. Unforced /\ [GatewayNext]_gatewayVars => Unforced'
  <2>1. Unforced /\ [GatewayNext]_gatewayVars => Ownership'
    BY HandlersStep DEF Unforced
  <2> QED
    BY <1>2, <2>1, StreamsMove, UnforcedStep DEF Unforced
<1>4. Unforced /\ [GatewayNext]_gatewayVars =>
        [\A c \in CallerIDs :
           Exclusive(c) /\ ~ Exclusive(c)' => Stale(c) /\ ~ Connected(c)']_vars
  <2>1. ASSUME ForceStop, NEW c \in CallerIDs, Exclusive(c) PROVE Exclusive(c)'
    BY <1>2, <2>1, ExclusiveKept DEF registryVars, ConnectedStream, Live
  <2> QED
    BY <2>1, StreamsMove, ExclusiveStep
<1> QED
  BY <1>1, <1>3, <1>4, PTL DEF GatewaySpec, ExclusiveUntilExpiry

-----------------------------------------------------------------------------
(* Draining.                                                               *)

\* A stream that has not been opened has done nothing, and a drained server has
\* no handler left.  With RegistryServesLiveStreams no entry is left, either.
Drained ==
  /\ Ownership
  /\ opened \subseteq Streams
  /\ \A s \in Streams \ opened : pc[s] = "first"
  /\ grpc = "drained" => \A s \in opened : pc[s] = "ended"

LEMMA DrainedInit == GatewayInit => Drained
<1> SUFFICES ASSUME GatewayInit PROVE Drained
  OBVIOUS
<1>1. Ownership
  BY OwnershipInit DEF GatewayInit
<1> QED
  BY <1>1 DEF GatewayInit, Init, Drained

LEMMA DrainedStep == Drained /\ [GatewayNext]_gatewayVars => Drained'
<1> SUFFICES ASSUME Drained, [GatewayNext]_gatewayVars PROVE Drained'
  OBVIOUS
<1>1. Ownership'
  BY HandlersStep DEF Drained
<1> USE DEF Drained
<1>2. CASE GrpcStopped
  BY <1>1, <1>2 DEF GrpcStopped, ReturnsFrom, vars
<1>3. ASSUME NEW s \in Streams, OpenStream(s) PROVE Drained'
  BY <1>1, <1>3 DEF OpenStream, vars
<1>4. ASSUME NEW s \in Streams, StreamRuns(s) PROVE Drained'
  <2>1. s \in opened /\ UNCHANGED <<opened, grpc>> /\ StreamStep(s) /\ TypeOK
    BY <1>4 DEF StreamRuns, serverVars, Ownership
  <2>2. \A t \in Streams : t # s \/ pc[t] = "ended" => pc'[t] = pc[t]
    BY <2>1, OnlyItsOwnPc
  <2>3. grpc' = "drained" => \A t \in opened' : pc'[t] = "ended"
    BY <2>1, <2>2
  <2> QED
    BY <1>1, <2>1, <2>2, <2>3
<1>5. CASE MonitorRuns \/ TimePasses
  BY <1>1, <1>5 DEF MonitorRuns, TimePasses, MonitorTick, ClockTick, handlerVars, serverVars
<1>6. CASE ForceStop
  BY <1>1, <1>6 DEF ForceStop, ReturnsFrom, handlerVars
<1>7. CASE StopMonitor \/ StopHttp \/ StopGrpc
  BY <1>1, <1>7 DEF StopMonitor, StopHttp, StopGrpc, CallsOnStop, vars
<1>8. CASE HttpStopped \/ HttpStopTimesOut
  BY <1>1, <1>8 DEF HttpStopped, HttpStopTimesOut, ReturnsFrom, vars
<1>9. CASE Build \/ BuildFails \/ StartGrpc \/ StartHttp \/ StartMonitor
  BY <1>1, <1>9 DEF Build, BuildFails, StartGrpc, StartHttp, StartMonitor, Started, vars,
    serverVars
<1>10. CASE Signal \/ Exit \/ GiveUp \/ MonitorReturns \/ RequestBegins \/ RequestEnds
  BY <1>1, <1>10 DEF Signal, Exit, GiveUp, MonitorReturns, RequestBegins, RequestEnds, vars,
    serverVars
<1>11. CASE UNCHANGED gatewayVars
  BY <1>1, <1>11 DEF gatewayVars, vars, serverVars
<1> QED
  BY <1>2, <1>3, <1>4, <1>5, <1>6, <1>7, <1>8, <1>9, <1>10, <1>11 DEF GatewayNext, Fx

\* After a graceful stop of the gRPC server no agent is connected.
THEOREM GracefulStopDisconnects == GatewaySpec => []DrainedIsDeregistered
<1>1. ASSUME Drained, grpc = "drained", NEW c \in CallerIDs, Connected(c)
      PROVE  FALSE
  <2>1. PICK s \in Streams : Live(s)
    BY <1>1 DEF Drained, Ownership, RegistryServesLiveStreams
  <2>2. s \in opened
    BY <1>1, <2>1 DEF Drained, Live
  <2> QED
    BY <1>1, <2>1, <2>2 DEF Drained, Live
<1>2. Drained => DrainedIsDeregistered
  BY <1>1 DEF DrainedIsDeregistered
<1> QED
  BY <1>2, DrainedInit, DrainedStep, PTL DEF GatewaySpec

-----------------------------------------------------------------------------
(* Types.                                                                  *)

\* No OnStop runs before fx has started everything.
OnStopWhileStopping ==
  phase \in {"building", "starting", "running"} => http # "closing" /\ grpc # "draining"

GatewayTyped == GatewayTypeOK /\ OnStopWhileStopping /\ Ownership

LEMMA GatewayTypedInit == GatewayInit => GatewayTyped
<1> SUFFICES ASSUME GatewayInit PROVE GatewayTyped
  OBVIOUS
<1>1. Ownership
  BY OwnershipInit DEF GatewayInit
<1>2. 0 \in 0 .. 3 /\ 0 \in 0 .. StopTimeout
  OBVIOUS
<1> QED
  BY <1>1, <1>2 DEF GatewayInit, GatewayTyped, GatewayTypeOK, OnStopWhileStopping, Ownership

LEMMA GatewayTypedStep == GatewayTyped /\ [GatewayNext]_gatewayVars => GatewayTyped'
<1> SUFFICES ASSUME GatewayTyped, [GatewayNext]_gatewayVars PROVE GatewayTyped'
  OBVIOUS
<1>1. Ownership' /\ TypeOK'
  BY HandlersStep DEF GatewayTyped, Ownership
<1> USE DEF GatewayTyped, GatewayTypeOK, OnStopWhileStopping
<1>2. CASE Build \/ BuildFails \/ Signal \/ Exit \/ GiveUp
  BY <1>1, <1>2 DEF Build, BuildFails, Signal, Exit, GiveUp, serverVars, timeVars
<1>3. CASE StartGrpc \/ StartHttp \/ StartMonitor
  BY <1>1, <1>3 DEF StartGrpc, StartHttp, StartMonitor, Started, timeVars
<1>4. CASE StopMonitor \/ StopHttp \/ StopGrpc
  BY <1>1, <1>4 DEF StopMonitor, StopHttp, StopGrpc, CallsOnStop
<1>5. CASE HttpStopped \/ HttpStopTimesOut
  <2>1. hooks = 2 /\ hooks' = 1 /\ grpc # "draining"
    BY <1>5 DEF HttpStopped, HttpStopTimesOut, ReturnsFrom
  <2>2. http' \in {"closed", "abandoned"} /\ failed' \in BOOLEAN
    BY <1>5 DEF HttpStopped, HttpStopTimesOut
  <2>3. UNCHANGED <<phase, opened, monitor, busy, elapsed, since, grpc>>
    BY <1>5 DEF HttpStopped, HttpStopTimesOut, ReturnsFrom, timeVars
  <2> QED
    BY <1>1, <2>1, <2>2, <2>3
<1>10. CASE GrpcStopped \/ ForceStop
  BY <1>1, <1>10 DEF GrpcStopped, ForceStop, ReturnsFrom, timeVars
<1>6. ASSUME NEW s \in Streams, OpenStream(s) \/ StreamRuns(s) PROVE GatewayTyped'
  BY <1>1, <1>6 DEF OpenStream, StreamRuns, fxVars, serverVars, timeVars
<1>7. CASE MonitorRuns
  BY <1>1, <1>7 DEF MonitorRuns, fxVars, serverVars, timeVars
<1>11. CASE MonitorReturns
  BY <1>1, <1>11 DEF MonitorReturns, fxVars, timeVars
<1>12. CASE RequestBegins \/ RequestEnds
  BY <1>1, <1>12 DEF RequestBegins, RequestEnds, fxVars, timeVars
<1>8. CASE TimePasses
  BY <1>1, <1>8 DEF TimePasses, fxVars, serverVars
<1>9. CASE UNCHANGED gatewayVars
  BY <1>1, <1>9 DEF gatewayVars, fxVars, serverVars, timeVars
<1> QED
  BY <1>2, <1>3, <1>4, <1>5, <1>6, <1>7, <1>8, <1>9, <1>10, <1>11, <1>12
  DEF GatewayNext, Fx

\* Types, and an OnStop is only ever running while fx is at its hook.
THEOREM GatewayTypeCorrect == GatewaySpec => []GatewayTypeOK
<1>1. GatewayTyped => GatewayTypeOK
  BY DEF GatewayTyped
<1> QED
  BY <1>1, GatewayTypedInit, GatewayTypedStep, PTL DEF GatewaySpec
-----------------------------------------------------------------------------
(* Exit.                                                                   *)

\* Where fx is tells how far the servers have stopped, unless something has failed.
StopOrder ==
  /\ phase = "running" => hooks = 3
  /\ phase = "stopping" /\ hooks < 2 => http \in {"closed", "abandoned"}
  /\ phase = "stopping" /\ hooks < 1 => grpc \in {"drained", "stopped"}
  /\ http = "abandoned" => failed
  /\ phase = "exited" /\ ~ failed => http = "closed" /\ grpc \in {"drained", "stopped"}

\* A server that was stopped by force has closed every transport for good.
TransportsClosed == grpc = "stopped" => \A s \in opened : link[s] \in Errors

Exiting == GatewayTyped /\ Drained /\ StopOrder /\ TransportsClosed

LEMMA StopOrderStep ==
  ASSUME GatewayTyped, StopOrder, [GatewayNext]_gatewayVars
  PROVE  StopOrder'
<1> USE DEF GatewayTyped, GatewayTypeOK, StopOrder
<1>1. CASE Build \/ BuildFails \/ Signal \/ Exit \/ GiveUp
  BY <1>1 DEF Build, BuildFails, Signal, Exit, GiveUp, serverVars, timeVars
<1>2. CASE StartGrpc \/ StartHttp \/ StartMonitor
  BY <1>2 DEF StartGrpc, StartHttp, StartMonitor, Started, timeVars
<1>3. CASE StopMonitor \/ StopHttp \/ StopGrpc
  BY <1>3 DEF StopMonitor, StopHttp, StopGrpc, CallsOnStop
<1>4. CASE HttpStopped \/ HttpStopTimesOut
  BY <1>4 DEF HttpStopped, HttpStopTimesOut, ReturnsFrom
<1>5. CASE GrpcStopped \/ ForceStop
  BY <1>5 DEF GrpcStopped, ForceStop, ReturnsFrom
<1>6. CASE (\E s \in Streams : OpenStream(s) \/ StreamRuns(s)) \/ MonitorRuns \/ TimePasses
  BY <1>6 DEF OpenStream, StreamRuns, MonitorRuns, TimePasses, fxVars, serverVars
<1>7. CASE MonitorReturns \/ RequestBegins \/ RequestEnds
  BY <1>7 DEF MonitorReturns, RequestBegins, RequestEnds, fxVars
<1>8. CASE UNCHANGED gatewayVars
  BY <1>8 DEF gatewayVars, fxVars, serverVars
<1> QED
  BY <1>1, <1>2, <1>3, <1>4, <1>5, <1>6, <1>7, <1>8 DEF GatewayNext, Fx

\* No link comes back.
LEMMA ErrorsStay ==
  ASSUME TypeOK, NEW s \in Streams, StreamStep(s), NEW t \in Streams, link[t] \in Errors
  PROVE  link'[t] = link[t]
<1> USE DEF TypeOK, Errors
<1>1. CASE GoSilent(s) \/ LinkEnds(s)
  BY <1>1 DEF GoSilent, LinkEnds, LinkChanges
<1>2. CASE RegisterFree(s) \/ RegisterByForce(s)
  BY <1>2 DEF RegisterFree, RegisterByForce, EnterLoop
<1>3. CASE Reader(s) \/ ReceiveFrame(s)
  BY <1>3 DEF Reader, ReceiveFrame, ReceiveEnd, Received, Offer, Quit
<1>4. CASE RegisterTaken(s) \/ TakeEvict(s) \/ TakeHeartbeat(s) \/ TakeOther(s) \/ TakeEnd(s)
           \/ Leave(s) \/ RefuseFirst(s) \/ \E c \in CallerIDs : AcceptHello(s, c)
  BY <1>4 DEF RegisterTaken, TakeEvict, TakeHeartbeat, TakeOther, TakeEnd, Leave, RefuseFirst,
    AcceptHello
<1> QED
  BY <1>1, <1>2, <1>3, <1>4 DEF StreamStep, Handler, Client

LEMMA TransportsStep ==
  ASSUME GatewayTyped, Drained, TransportsClosed, [GatewayNext]_gatewayVars
  PROVE  TransportsClosed'
<1> USE DEF GatewayTyped, GatewayTypeOK, TransportsClosed
<1>1. CASE ForceStop
  BY <1>1 DEF ForceStop, ReturnsFrom, Errors
<1>2. ASSUME NEW s \in Streams, StreamRuns(s) PROVE TransportsClosed'
  BY <1>2, ErrorsStay DEF StreamRuns, serverVars
<1>3. CASE MonitorRuns \/ TimePasses
  BY <1>3 DEF MonitorRuns, TimePasses, MonitorTick, ClockTick, serverVars
<1>4. CASE Aside \/ UNCHANGED gatewayVars
  <2>1. UNCHANGED link
    BY <1>4, AsideStutters DEF gatewayVars, vars
  <2>2. grpc' = "stopped" => grpc = "stopped" /\ opened' = opened
    BY <1>4 DEF Aside, Build, BuildFails, StartGrpc, StartHttp, StartMonitor, Started, Signal,
      StopMonitor, StopHttp, HttpStopped, HttpStopTimesOut, StopGrpc, GrpcStopped, Exit,
      GiveUp, OpenStream, MonitorReturns, RequestBegins, RequestEnds, CallsOnStop, ReturnsFrom,
      serverVars, gatewayVars
  <2> QED
    BY <2>1, <2>2
<1> QED
  BY <1>1, <1>2, <1>3, <1>4, GatewaySteps

\* A process that exits without an error has answered every HTTP request and left no
\* RPC with an open transport.
THEOREM CleanExits == GatewaySpec => []CleanExitLeavesNobody
<1>1. GatewayInit => Exiting
  BY GatewayTypedInit, DrainedInit DEF GatewayInit, Exiting, StopOrder, TransportsClosed
<1>2. Exiting /\ [GatewayNext]_gatewayVars => Exiting'
  BY GatewayTypedStep, DrainedStep, StopOrderStep, TransportsStep DEF Exiting
<1>3. Exiting => CleanExitLeavesNobody
  BY DEF Exiting, StopOrder, TransportsClosed, Drained, CleanExitLeavesNobody
<1> QED
  BY <1>1, <1>2, <1>3, PTL DEF GatewaySpec
=============================================================================
