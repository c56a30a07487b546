--------------------------- MODULE GatewayLifecycle ---------------------------
(***************************************************************************)
(* The kd-gateway process around its AgentStream handlers: what the fx     *)
(* application of cmd/grpc/main.go builds, starts and stops.               *)
(*                                                                         *)
(* fx calls OnStart in the order in which the hooks were appended, that    *)
(* is, in which the Invokes of core/agent/module.go ask for what appends   *)
(* them, and OnStop in the reverse order:                                  *)
(*                                                                         *)
(*      1  gRPC server       infrastructure/grpc/server.go                 *)
(*      2  HTTP server       infrastructure/http/server.go                 *)
(*      3  heartbeat monitor core/agent/heartbeat/monitor.go               *)
(*                                                                         *)
(* `hooks' counts the hooks whose OnStart returned and whose OnStop has    *)
(* not.  No OnStart can fail: what can go wrong there goes wrong in a      *)
(* goroutine and is logged.  All OnStop calls together have StopTimeout:   *)
(* fx looks at it before each call, and gives up in the middle of one.     *)
(* The NewOTLPExporter hook is never appended: nothing asks for it.        *)
(*                                                                         *)
(* A stream of AgentStreams exists here once its RPC has been opened.      *)
(***************************************************************************)
EXTENDS AgentStreams

CONSTANTS
  StopTimeout,   \* fx.DefaultTimeout, in clock ticks
  GraceTimeout   \* gracefulStopTimeout of both servers, in clock ticks

ASSUME TimeoutAssumption ==
  /\ StopTimeout \in Nat \ {0}
  /\ GraceTimeout \in Nat \ {0}

VARIABLES
  phase,     \* of the fx application
  hooks,     \* fx's count of started hooks
  failed,    \* an error that makes the process exit with code 1
  opened,    \* the streams whose RPC has been opened
  grpc, http, monitor,
  busy,      \* an HTTP request is being served
  elapsed,   \* clock ticks since fx began to stop
  since      \* value of elapsed when the running OnStop was called

fxVars == <<phase, hooks, failed>>
serverVars == <<opened, grpc, http, monitor, busy>>
timeVars == <<elapsed, since>>
gatewayVars == <<vars, fxVars, serverVars, timeVars>>

\* fx is inside the OnStop of a server exactly while it is at that hook.
GatewayTypeOK ==
  /\ TypeOK
  /\ phase \in {"building", "starting", "running", "stopping", "exited"}
  /\ hooks \in 0 .. 3
  /\ failed \in BOOLEAN
  /\ opened \subseteq Streams
  /\ grpc \in {"off", "listening", "serving", "draining", "drained", "stopped"}
  /\ http \in {"off", "serving", "refused", "closing", "closed", "abandoned"}
  /\ monitor \in {"off", "running", "cancelled", "returned"}
  /\ busy \in BOOLEAN
  /\ elapsed \in 0 .. StopTimeout
  /\ since \in 0 .. StopTimeout
  /\ http = "closing" => hooks = 2
  /\ grpc = "draining" => hooks = 1

GatewayInit ==
  /\ Init
  /\ phase = "building" /\ hooks = 0 /\ failed = FALSE
  /\ opened = {}
  /\ grpc = "off" /\ http = "off" /\ monitor = "off"
  /\ busy = FALSE
  /\ elapsed = 0 /\ since = 0

-----------------------------------------------------------------------------
(* Building and starting.                                                  *)

\* The gRPC server listens from its constructor on.
Build ==
  /\ phase = "building"
  /\ phase' = "starting"
  /\ grpc' = "listening"
  /\ UNCHANGED <<vars, hooks, failed, opened, http, monitor, busy, timeVars>>

\* No credentials, or the address is taken: fx exits before any hook runs.
BuildFails ==
  /\ phase = "building"
  /\ phase' = "exited"
  /\ failed' = TRUE
  /\ UNCHANGED <<vars, hooks, serverVars, timeVars>>

Started(n) ==
  /\ phase = "starting"
  /\ hooks = n - 1
  /\ hooks' = n
  /\ UNCHANGED <<vars, failed, opened, busy, timeVars>>

StartGrpc ==
  /\ Started(1)
  /\ grpc' = "serving"
  /\ UNCHANGED <<phase, http, monitor>>

\* ListenAndServe runs in a goroutine: if it fails, the gateway goes on without.
StartHttp ==
  /\ Started(2)
  /\ http' \in {"serving", "refused"}
  /\ UNCHANGED <<phase, grpc, monitor>>

StartMonitor ==
  /\ Started(3)
  /\ monitor' = "running"
  /\ phase' = "running"
  /\ UNCHANGED <<grpc, http>>

-----------------------------------------------------------------------------
(* Stopping.                                                               *)

Signal ==
  /\ phase = "running"
  /\ phase' = "stopping"
  /\ UNCHANGED <<vars, hooks, failed, serverVars, timeVars>>

\* fx calls the OnStop of the n-th hook, unless its time is up.
CallsOnStop(n) ==
  /\ phase = "stopping"
  /\ hooks = n
  /\ elapsed < StopTimeout
  /\ since' = elapsed
  /\ UNCHANGED <<phase, failed, opened, busy, elapsed>>

\* The OnStop of the n-th hook returns.
ReturnsFrom(n) ==
  /\ phase = "stopping"
  /\ hooks = n
  /\ hooks' = n - 1
  /\ UNCHANGED <<phase, opened, monitor, busy, timeVars>>

\* OnStop of the monitor cancels and does not wait for Run to return.
StopMonitor ==
  /\ CallsOnStop(3)
  /\ hooks' = 2
  /\ monitor' = "cancelled"
  /\ UNCHANGED <<vars, grpc, http>>

StopHttp ==
  /\ CallsOnStop(2)
  /\ http \in {"serving", "refused"}
  /\ http' = "closing"
  /\ UNCHANGED <<vars, hooks, grpc, monitor>>

HttpStopped ==
  /\ http = "closing" /\ ~ busy
  /\ ReturnsFrom(2)
  /\ http' = "closed"
  /\ UNCHANGED <<vars, failed, grpc>>

\* Mutant: the error is kept for a second Shutdown, which fx never asks for.
HttpStopTimesOut_Retries ==
  /\ http = "closing" /\ busy
  /\ elapsed = StopTimeout \/ elapsed - since >= GraceTimeout
  /\ ReturnsFrom(2)
  /\ failed' = TRUE
  /\ UNCHANGED <<vars, http, grpc>>

\* Shutdown's context is fx's, with the server's own timeout on top.  The
\* connections it waited for stay open.
HttpStopTimesOut ==
  /\ http = "closing" /\ busy
  /\ elapsed = StopTimeout \/ elapsed - since >= GraceTimeout
  /\ ReturnsFrom(2)
  /\ failed' = TRUE
  /\ http' = "abandoned"
  /\ UNCHANGED <<vars, grpc>>

StopGrpc ==
  /\ CallsOnStop(1)
  /\ grpc = "serving"
  /\ grpc' = "draining"
  /\ UNCHANGED <<vars, hooks, http, monitor>>

\* Mutant: `stopped' is closed without waiting for GracefulStop.
GrpcStopped_AtOnce ==
  /\ grpc = "draining"
  /\ ReturnsFrom(1)
  /\ grpc' = "drained"
  /\ UNCHANGED <<vars, failed, http>>

\* GracefulStop returns when the handler of every RPC has.
GrpcStopped ==
  /\ grpc = "draining"
  /\ \A s \in opened : pc[s] = "ended"
  /\ ReturnsFrom(1)
  /\ grpc' = "drained"
  /\ UNCHANGED <<vars, failed, http>>

\* Mutant: the streams that the registry knows are closed.
ForceStop_Registered ==
  /\ grpc = "draining"
  /\ elapsed - since >= GraceTimeout
  /\ ReturnsFrom(1)
  /\ grpc' = "stopped"
  /\ link' = [s \in Streams |->
                IF \E c \in CallerIDs : agents[c].stream = s THEN "closed" ELSE link[s]]
  /\ UNCHANGED <<registryVars, handlerVars, readerVars, recvCh, failed, http>>

\* Stop closes every transport, and the handlers' Recv fails.
ForceStop ==
  /\ grpc = "draining"
  /\ elapsed - since >= GraceTimeout
  /\ ReturnsFrom(1)
  /\ grpc' = "stopped"
  /\ link' = [s \in Streams |-> IF s \in opened THEN "closed" ELSE link[s]]
  /\ UNCHANGED <<registryVars, handlerVars, readerVars, recvCh, failed, http>>

Exit ==
  /\ phase = "stopping"
  /\ hooks = 0
  /\ phase' = "exited"
  /\ UNCHANGED <<vars, hooks, failed, serverVars, timeVars>>

\* fx gives up, whatever OnStop is running or has not been called.
GiveUp ==
  /\ phase = "stopping"
  /\ elapsed = StopTimeout
  /\ phase' = "exited"
  /\ failed' = TRUE
  /\ UNCHANGED <<vars, hooks, serverVars, timeVars>>

-----------------------------------------------------------------------------
(* What runs inside the process until it exits.                            *)

Running == phase # "exited"

OpenStream(s) ==
  /\ Running
  /\ grpc = "serving"
  /\ s \notin opened
  /\ opened' = opened \cup {s}
  /\ UNCHANGED <<vars, fxVars, grpc, http, monitor, busy, timeVars>>

StreamRuns(s) ==
  /\ Running
  /\ s \in opened
  /\ StreamStep(s)
  /\ UNCHANGED <<fxVars, serverVars, timeVars>>

\* After the cancellation select may still take a tick that is there.
MonitorRuns ==
  /\ Running
  /\ monitor \in {"running", "cancelled"}
  /\ MonitorTick
  /\ UNCHANGED <<fxVars, serverVars, timeVars>>

MonitorReturns ==
  /\ Running
  /\ monitor = "cancelled"
  /\ monitor' = "returned"
  /\ UNCHANGED <<vars, fxVars, opened, grpc, http, busy, timeVars>>

RequestBegins ==
  /\ Running
  /\ http = "serving"
  /\ busy' = TRUE
  /\ UNCHANGED <<vars, fxVars, opened, grpc, http, monitor, timeVars>>

RequestEnds ==
  /\ Running
  /\ busy
  /\ busy' = FALSE
  /\ UNCHANGED <<vars, fxVars, opened, grpc, http, monitor, timeVars>>

\* The two places where an OnStop waits for a client.
StopWaits ==
  \/ http = "closing" /\ busy
  \/ grpc = "draining" /\ \E s \in opened : pc[s] # "ended"

\* Stopping takes as good as no time where it waits for no one, and time does not
\* pass beyond the moment at which fx gives up.
TimePasses ==
  /\ Running
  /\ phase = "stopping" => StopWaits
  /\ ClockTick
  /\ IF phase = "stopping"
       THEN elapsed < StopTimeout /\ elapsed' = elapsed + 1
       ELSE UNCHANGED elapsed
  /\ UNCHANGED <<fxVars, serverVars, since>>

-----------------------------------------------------------------------------
Fx ==
  \/ Build \/ BuildFails \/ StartGrpc \/ StartHttp \/ StartMonitor
  \/ Signal \/ StopMonitor \/ StopHttp \/ HttpStopped \/ HttpStopTimesOut
  \/ StopGrpc \/ GrpcStopped \/ ForceStop \/ Exit \/ GiveUp

GatewayNext ==
  \/ Fx
  \/ \E s \in Streams : OpenStream(s) \/ StreamRuns(s)
  \/ MonitorRuns \/ MonitorReturns \/ RequestBegins \/ RequestEnds
  \/ TimePasses

GatewaySpec == GatewayInit /\ [][GatewayNext]_gatewayVars

-----------------------------------------------------------------------------
(* Properties.                                                             *)

\* When the gRPC server has stopped gracefully, no agent is connected any more:
\* every handler deregisters before its RPC counts as finished, whichever way it
\* left its loop, and no RPC is opened in the meantime (server.go:105-114 with
\* grpc_handler.go:114-126).
DrainedIsDeregistered == grpc = "drained" => \A c \in CallerIDs : ~ Connected(c)

\* A process that exits without an error leaves nobody behind: its HTTP server has
\* answered every request, and each RPC it ever opened has returned to its agent or
\* lost its transport, evicted, disconnected and half-registered ones included
\* (grpc/server.go:105-123, http/server.go:104-115).
CleanExitLeavesNobody ==
  phase = "exited" /\ ~ failed =>
    /\ http = "closed"
    /\ \A s \in opened : pc[s] = "ended" \/ link[s] \in Errors

\* "so that the FX lifecycle hooks can start and stop the server cleanly"
\* (grpc/server.go:41-42): a process that was asked to stop does not exit before
\* its gRPC server has stopped, gracefully or by force.
StopsCleanly == phase = "exited" /\ grpc # "off" => grpc \in {"drained", "stopped"}
=============================================================================
