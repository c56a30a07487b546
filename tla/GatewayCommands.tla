--------------------------- MODULE GatewayCommands ---------------------------
(***************************************************************************)
(* Commands through the whole gateway: calls of Router.Send over the real  *)
(* registry and handlers of AgentStreams instead of AgentPresence, and     *)
(* their results as frames that pass the reader, recvCh and the select of  *)
(* the handler, which calls Router.Deliver on its own goroutine            *)
(* (grpc_handler.go:189-199, wired in core/agent/module.go).               *)
(*                                                                         *)
(* A result is a payload named by the call whose command it answers.       *)
(***************************************************************************)
EXTENDS AgentStreams

CONSTANTS
  Calls, NoCall, Requests   \* as in CommandRouter

VARIABLES
  requestOf, waiters, at, target, via,         \* as in CommandRouter, where
  buffer, outcome, ctxDone, sent, delivery     \* `at' is called pc

routerVars == <<requestOf, waiters, at, target, via, buffer, outcome, ctxDone, sent, delivery>>
commandVars == <<vars, routerVars>>

Router ==
  INSTANCE CommandRouter WITH
    pc <- at,
    presence <- [c \in CallerIDs |-> ConnectedStream(c)],
    owner <- [s \in Streams |-> IF reader[s] = "off" THEN NoCaller ELSE caller[s]]

ASSUME CommandsAssumption ==
  /\ Calls \subseteq Payloads
  /\ NoCall \notin Calls \cup {"Unavailable", "ContextOver"}
  /\ Calls \cap {"Unavailable", "ContextOver"} = {}

CommandsInit ==
  /\ Init
  /\ requestOf \in [Calls -> Requests]
  /\ waiters = [r \in Requests |-> NoCall]
  /\ at = [k \in Calls |-> "start"]
  /\ target = [k \in Calls |-> NoCaller]
  /\ via = [k \in Calls |-> NoStream]
  /\ buffer = [k \in Calls |-> NoCall]
  /\ outcome = [k \in Calls |-> NoCall]
  /\ ctxDone = {}
  /\ sent = {}
  /\ delivery = [s \in Streams |-> Router!NoDelivery]

-----------------------------------------------------------------------------
\* Mutant: a result goes to its call whether that has a waiter or not.
TakeResultFrame_ToCall(s, k) ==
  /\ delivery[s] = Router!NoDelivery
  /\ recvCh[s] = k
  /\ TakeOther(s)
  /\ delivery' = [delivery EXCEPT ![s].result = k, ![s].to = k]
  /\ UNCHANGED <<requestOf, waiters, at, target, via, buffer, outcome, ctxDone, sent>>

\* Mutant: results from an agent that is not connected any more are ignored.
TakeResultFrame_ConnectedOnly(s, k) ==
  /\ recvCh[s] = k
  /\ TakeOther(s)
  /\ IF agents[caller[s]].stream = s
       THEN Router!LookUpWaiter(s, k) /\ UNCHANGED requestOf
       ELSE UNCHANGED routerVars

\* The loop hands a result to the router, which looks for its waiter; the handler
\* is inside Deliver until delivery[s] is done.
TakeResultFrame(s, k) ==
  /\ recvCh[s] = k
  /\ TakeOther(s)
  /\ Router!LookUpWaiter(s, k)
  /\ UNCHANGED requestOf

\* Every other step of the handler; while it is inside Deliver it takes none.
HandlerRuns(s) ==
  /\ delivery[s] = Router!NoDelivery
  /\ recvCh[s] \in Calls => UNCHANGED recvCh
  /\ Handler(s)
  /\ UNCHANGED routerVars

\* Agents answer commands they were sent: once, twice, late or never.
AnswerCommand(s) ==
  /\ link[s] = "up"
  /\ \E k \in sent : Received(s, k)

\* Other frames and silent links show nothing here: a heartbeat only keeps an entry
\* from becoming stale, and the clock may stand still as well.
ClientActs(s) ==
  /\ \/ RefuseFirst(s)
     \/ \E c \in CallerIDs : AcceptHello(s, c)
     \/ AnswerCommand(s)
     \/ LinkEnds(s)
  /\ UNCHANGED routerVars

ReaderRuns(s) == Reader(s) /\ UNCHANGED routerVars

Elsewhere == (MonitorTick \/ ClockTick) /\ UNCHANGED routerVars

SendRuns(k) == UNCHANGED <<vars, requestOf>> /\ Router!SendStep(k)

ContextEnds(k) == UNCHANGED <<vars, requestOf>> /\ Router!ContextOver(k)

DeliverReturns(s) == UNCHANGED <<vars, requestOf>> /\ Router!OfferResult(s)

HandlerMoves(s) ==
  \/ HandlerRuns(s)
  \/ \E k \in Calls : TakeResultFrame(s, k)
  \/ DeliverReturns(s)

CommandsNext ==
  \/ Elsewhere
  \/ \E s \in Streams : HandlerMoves(s) \/ ReaderRuns(s) \/ ClientActs(s)
  \/ \E k \in Calls : SendRuns(k) \/ ContextEnds(k)

CommandsSafety == CommandsInit /\ [][CommandsNext]_commandVars

\* The fairness of AgentStreams and of CommandRouter, as far as needed: handlers,
\* readers and calls that can move on their own do.
CommandsSpec ==
  /\ CommandsSafety
  /\ \A s \in Streams : WF_commandVars(HandlerMoves(s)) /\ WF_commandVars(ReaderRuns(s))
  /\ \A k \in Calls :
       WF_commandVars(UNCHANGED <<vars, requestOf>> /\ Router!OwnStep(k))

-----------------------------------------------------------------------------
(* Properties.                                                             *)

\* The router inside the gateway is the router of CommandRouter: nothing that the
\* registry, the handlers and the readers do is missing from the environment
\* CommandRouter assumes, so that what is shown there holds here.
ImplementsRouter == Router!Safety

\* A command is given to a stream whose handler is in its loop or leaving it, and
\* that has not been evicted, when Send looks it up (router.go:54).
LooksUpLiveStream ==
  [][\A k \in Calls : at[k] = "start" /\ at'[k] = "add" =>
       Live(via'[k]) /\ via'[k] \notin closed /\ caller[via'[k]] = target'[k]]_commandVars

\* A result that has reached the handler of a stream reaches the call that waits
\* for it under a request_id of its own, unless the handler leaves its loop first
\* (grpc_handler.go:151-199): it is lost with an eviction or an error, never by the
\* passage itself.
AnswerArrives ==
  \A k \in Calls, s \in Streams :
    recvCh[s] = k /\ pc[s] = "loop" /\ at[k] = "wait" /\ Router!Unshared(k)
      ~> at[k] # "wait" \/ pc[s] # "loop"
=============================================================================
