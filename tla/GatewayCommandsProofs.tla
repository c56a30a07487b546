------------------------- MODULE GatewayCommandsProofs -------------------------
(***************************************************************************)
(* GatewayCommands implements CommandRouter, for every set of callers,     *)
(* streams, calls and request_ids, every TTL and both duplicate policies.  *)
(* A step of the whole is a step of AgentStreams or a stutter of it, so    *)
(* the handlers' invariant is that of AgentStreamsProofs.                  *)
(***************************************************************************)
EXTENDS GatewayCommands, AgentStreamsProofs

\* The steps the router takes by itself.
RouterAlone ==
  \/ \E s \in Streams : DeliverReturns(s)
  \/ \E k \in Calls : SendRuns(k) \/ ContextEnds(k)

\* The steps the handlers, the monitor and the clock take without the router.
StreamsAlone ==
  \/ Elsewhere
  \/ \E s \in Streams : HandlerRuns(s) \/ ReaderRuns(s) \/ ClientActs(s)

LEMMA CommandsSteps ==
  CommandsNext <=>
    RouterAlone \/ StreamsAlone \/ \E s \in Streams, k \in Calls : TakeResultFrame(s, k)
BY DEF CommandsNext, HandlerMoves, RouterAlone, StreamsAlone

LEMMA RouterAloneSteps ==
  RouterAlone => Router!Next /\ UNCHANGED vars
BY DEF RouterAlone, DeliverReturns, SendRuns, ContextEnds, Router!Next, Router!RouterNext

LEMMA AnswerIsFrame ==
  ASSUME NEW s \in Streams, AnswerCommand(s), sent \subseteq Calls
  PROVE  ReceiveFrame(s)
BY CommandsAssumption DEF AnswerCommand, ReceiveFrame, Frames

LEMMA StreamsAloneSteps ==
  ASSUME StreamsAlone, sent \subseteq Calls
  PROVE  Next /\ UNCHANGED routerVars
<1>1. CASE Elsewhere
  BY <1>1 DEF Elsewhere, Next
<1>2. ASSUME NEW s \in Streams, HandlerRuns(s) \/ ReaderRuns(s) \/ ClientActs(s)
      PROVE  StreamStep(s) /\ UNCHANGED routerVars
  BY <1>2, AnswerIsFrame DEF HandlerRuns, ReaderRuns, ClientActs, StreamStep, Client
<1> QED
  BY <1>1, <1>2 DEF StreamsAlone, Next

LEMMA TakeResultSteps ==
  ASSUME NEW s \in Streams, NEW k \in Calls, TakeResultFrame(s, k)
  PROVE  Next /\ Router!Next
<1>1. StreamStep(s)
  BY DEF TakeResultFrame, StreamStep, Handler
<1>2. Router!LookUpWaiter(s, k) /\ UNCHANGED requestOf
  BY DEF TakeResultFrame
<1> QED
  BY <1>1, <1>2 DEF Next, Router!Next, Router!RouterNext

-----------------------------------------------------------------------------
CallsTyped ==
  /\ at \in [Calls -> Router!Pcs]
  /\ via \in [Calls -> Streams \cup {NoStream}]
  /\ target \in [Calls -> CallerIDs \cup {NoCaller}]
  /\ sent \subseteq Calls

\* The handlers' invariant, and as much of the router's type as the steps need.
CommandsInv == Ownership /\ CallsTyped

LEMMA SendKeepsTypes ==
  ASSUME CommandsInv, NEW k \in Calls, Router!SendStep(k)
  PROVE  CallsTyped'
<1> USE DEF CommandsInv, CallsTyped, Router!Pcs, Router!Goto, Router!Finish
<1>1. ASSUME NEW c \in CallerIDs, Router!LookUpAgent(k, c) PROVE CallsTyped'
  <2>1. ConnectedStream(c) \in Streams \cup {NoStream}
    BY DEF ConnectedStream, Connected, Ownership, TypeOK, RegistryTypeOK, Agent, Absent,
      Disconnected
  <2> QED
    BY <1>1, <2>1 DEF Router!LookUpAgent
<1>2. ASSUME Router!StreamSendReturns(k) \/ Router!OwnStep(k) PROVE CallsTyped'
  BY <1>2 DEF Router!OwnStep, Router!AddWaiter, Router!CallStreamSend,
    Router!StreamSendReturns, Router!TakeResult, Router!TakeDone, Router!RemoveWaiter
<1> QED
  BY <1>1, <1>2 DEF Router!SendStep

LEMMA CommandsStep ==
  CommandsInv /\ [CommandsNext]_commandVars => CommandsInv' /\ [Next]_vars
<1> SUFFICES ASSUME CommandsInv, [CommandsNext]_commandVars
             PROVE  CommandsInv' /\ [Next]_vars
  OBVIOUS
<1> USE DEF CommandsInv, CallsTyped
<1>1. CASE UNCHANGED commandVars
  BY <1>1, OwnershipStep DEF commandVars, routerVars
<1>2. CASE RouterAlone
  <2>1. CallsTyped'
    BY <1>2, SendKeepsTypes DEF RouterAlone, DeliverReturns, SendRuns, ContextEnds,
      Router!OfferResult, Router!ContextOver, Router!callVars, CallsTyped
  <2> QED
    BY <1>2, <2>1, RouterAloneSteps, OwnershipStep
<1>3. CASE StreamsAlone
  BY <1>3, StreamsAloneSteps, OwnershipStep DEF routerVars
<1>4. ASSUME NEW s \in Streams, NEW k \in Calls, TakeResultFrame(s, k)
      PROVE  CommandsInv' /\ [Next]_vars
  <2>1. UNCHANGED <<at, via, target, sent>>
    BY <1>4 DEF TakeResultFrame, Router!LookUpWaiter, Router!callVars
  <2> QED
    BY <1>4, <2>1, TakeResultSteps, OwnershipStep
<1> QED
  BY <1>1, <1>2, <1>3, <1>4, CommandsSteps

LEMMA CommandsInvariant == CommandsSafety => []CommandsInv
<1>1. CommandsInit => CommandsInv
  BY OwnershipInit DEF CommandsInit, CommandsInv, CallsTyped, Router!Pcs
<1> QED
  BY <1>1, CommandsStep, PTL DEF CommandsSafety

\* Routing commands adds nothing to what handlers, readers, monitor and clock do.
THEOREM CommandsKeepHandlers == CommandsSafety => Safety
<1>1. CommandsInit => Init
  BY DEF CommandsInit
<1> QED
  BY <1>1, CommandsStep, CommandsInvariant, PTL DEF CommandsSafety, Safety

-----------------------------------------------------------------------------
\* Presence is what Router and Presence both make of the registry.
LEMMA AgentsMayChange ==
  ASSUME [Presence!PresenceNext]_(Presence!presenceVars), UNCHANGED routerVars
  PROVE  [Router!Next]_(Router!vars)
<1>1. CASE Presence!PresenceNext
  <2>1. Router!PresenceNext
    BY <1>1 DEF Presence!PresenceNext, Presence!Vanish, Presence!Appear,
      Router!PresenceNext, Router!Vanish, Router!Appear
  <2> QED
    BY <2>1 DEF routerVars, Router!AgentsChange, Router!RouterNext, Router!Next,
      Router!callVars
<1>2. CASE UNCHANGED Presence!presenceVars
  BY <1>2 DEF Presence!presenceVars, routerVars, Router!vars
<1> QED
  BY <1>1, <1>2

\* The router over the real registry and handlers is CommandRouter.
THEOREM RouterRefined == CommandsSafety => ImplementsRouter
<1>1. CommandsInit => Router!Init
  BY DEF CommandsInit, Init, New, Absent, ConnectedStream, Router!Init, Router!PresenceInit
<1>2. CommandsInv /\ [CommandsNext]_commandVars => [Router!Next]_(Router!vars)
  <2> SUFFICES ASSUME CommandsInv, [CommandsNext]_commandVars
               PROVE  [Router!Next]_(Router!vars)
    OBVIOUS
  <2>1. CASE UNCHANGED commandVars
    <3>1. [Next]_vars /\ UNCHANGED routerVars
      BY <2>1 DEF commandVars
    <3> QED
      BY <3>1, StepRefines, AgentsMayChange DEF CommandsInv
  <2>2. CASE RouterAlone
    BY <2>2, RouterAloneSteps
  <2>3. CASE StreamsAlone
    <3>1. [Next]_vars /\ UNCHANGED routerVars
      BY <2>3, StreamsAloneSteps DEF CommandsInv, CallsTyped
    <3> QED
      BY <3>1, StepRefines, AgentsMayChange DEF CommandsInv
  <2>4. ASSUME NEW s \in Streams, NEW k \in Calls, TakeResultFrame(s, k)
        PROVE  Router!Next
    BY <2>4, TakeResultSteps
  <2> QED
    BY <2>1, <2>2, <2>3, <2>4, CommandsSteps
<1> QED
  BY <1>1, <1>2, CommandsInvariant, PTL DEF CommandsSafety, ImplementsRouter, Router!Safety

\* Send finds streams that are served, not evicted, and the agent's own.
THEOREM LooksUpLive == CommandsSafety => LooksUpLiveStream
<1>1. CommandsInv /\ [CommandsNext]_commandVars =>
        [\A k \in Calls : at[k] = "start" /\ at'[k] = "add" =>
           Live(via'[k]) /\ via'[k] \notin closed /\ caller[via'[k]] = target'[k]]_commandVars
  <2> SUFFICES ASSUME CommandsInv, CommandsNext, NEW k \in Calls,
                      at[k] = "start", at'[k] = "add"
               PROVE  Live(via'[k]) /\ via'[k] \notin closed /\ caller[via'[k]] = target'[k]
    OBVIOUS
  <2>1. PICK c \in CallerIDs : Router!LookUpAgent(k, c)
    <3>1. UNCHANGED at => FALSE
      OBVIOUS
    <3>2. RouterAlone
      BY <3>1, CommandsSteps, StreamsAloneSteps
      DEF CommandsInv, CallsTyped, routerVars, TakeResultFrame, Router!LookUpWaiter, Router!callVars
    <3>3. PICK j \in Calls : SendRuns(j)
      BY <3>1, <3>2 DEF RouterAlone, DeliverReturns, ContextEnds, Router!OfferResult,
        Router!ContextOver, Router!callVars
    <3>4. Router!SendStep(j)
      BY <3>3 DEF SendRuns
    <3>5. ASSUME Router!StreamSendReturns(j) \/ Router!OwnStep(j)
          PROVE  FALSE
      BY <3>5 DEF Router!OwnStep, Router!AddWaiter, Router!CallStreamSend,
        Router!StreamSendReturns, Router!TakeResult, Router!TakeDone, Router!RemoveWaiter,
        Router!Goto, Router!Finish, CommandsInv, CallsTyped, Router!Pcs
    <3>6. PICK c \in CallerIDs : Router!LookUpAgent(j, c)
      BY <3>4, <3>5 DEF Router!SendStep
    <3>7. j = k
      BY <3>6 DEF Router!LookUpAgent, Router!Goto, Router!Finish, CommandsInv, CallsTyped
    <3> QED
      BY <3>6, <3>7
  <2>2. via'[k] = ConnectedStream(c) /\ target'[k] = c /\ ConnectedStream(c) # NoStream
    BY <2>1 DEF Router!LookUpAgent, Router!Goto, Router!Finish, CommandsInv, CallsTyped
  <2>3. Connected(c) /\ via'[k] = agents[c].stream
    BY <2>2 DEF ConnectedStream
  <2>5. via'[k] \notin closed
    BY <2>3 DEF CommandsInv, Ownership, ClosedLostEntry
  <2> QED
    BY <2>2, <2>3, <2>5 DEF CommandsInv, Ownership, RegistryServesLiveStreams
<1> QED
  BY <1>1, CommandsInvariant, PTL DEF CommandsSafety, LooksUpLiveStream
-----------------------------------------------------------------------------
(* What is shown of the router over AgentPresence holds in the gateway.    *)

RouterFacts ==
  INSTANCE CommandRouterProofs WITH
    pc <- at,
    presence <- [c \in CallerIDs |-> ConnectedStream(c)],
    owner <- [s \in Streams |-> IF reader[s] = "off" THEN NoCaller ELSE caller[s]]

\* The theorems of CommandRouterProofs rest on this assumption and on no other.
LEMMA RouterAssumed == RouterFacts!RouterAssumption
BY RegistryAssumption, StreamsAssumption, CommandsAssumption DEF RouterFacts!RouterAssumption, RouterFacts!Failures

\* RouterFacts names the formulas of Router anew.
LEMMA FactsApply == CommandsSafety => RouterFacts!Safety
<1>1. Router!Init => RouterFacts!Init
  BY DEF
    Router!Init, Router!PresenceInit, Router!NoDelivery, RouterFacts!Init,
    RouterFacts!PresenceInit, RouterFacts!NoDelivery
<1>2. [Router!Next]_(Router!vars) => [RouterFacts!Next]_(RouterFacts!vars)
  BY DEF
    Router!AgentsChange, Router!PresenceNext, Router!Vanish, Router!Appear,
    Router!presenceVars, Router!callVars, Router!SendStep, Router!OwnStep,
    Router!LookUpAgent, Router!AddWaiter, Router!CallStreamSend,
    Router!StreamSendReturns, Router!TakeResult, Router!TakeDone, Router!RemoveWaiter,
    Router!ContextOver, Router!OfferResult, Router!LookUpWaiter, Router!Goto,
    Router!Finish, Router!NoDelivery, Router!RouterNext, Router!Next, Router!vars,
    RouterFacts!AgentsChange, RouterFacts!PresenceNext, RouterFacts!Vanish,
    RouterFacts!Appear, RouterFacts!presenceVars, RouterFacts!callVars,
    RouterFacts!SendStep, RouterFacts!OwnStep, RouterFacts!LookUpAgent,
    RouterFacts!AddWaiter, RouterFacts!CallStreamSend, RouterFacts!StreamSendReturns,
    RouterFacts!TakeResult, RouterFacts!TakeDone, RouterFacts!RemoveWaiter,
    RouterFacts!ContextOver, RouterFacts!OfferResult, RouterFacts!LookUpWaiter,
    RouterFacts!Goto, RouterFacts!Finish, RouterFacts!NoDelivery,
    RouterFacts!RouterNext, RouterFacts!Next, RouterFacts!vars
<1> QED
  BY <1>1, <1>2, RouterRefined, PTL DEF ImplementsRouter, Router!Safety, RouterFacts!Safety

\* A command is given to streams only whose hello carried the caller_id it is for,
\* also when the entry has changed hands since the look-up.
THEOREM CommandsReachHello ==
  CommandsSafety =>
    [](\A k \in sent : target[k] \in CallerIDs /\ via[k] \in Streams /\ caller[via[k]] = target[k])
<1> DEFINE Reached == \A k \in sent :
             target[k] \in CallerIDs /\ via[k] \in Streams /\ caller[via[k]] = target[k]
<1>1. RouterFacts!Routing => Reached
  BY RouterAssumed DEF RouterFacts!Routing, RouterFacts!ViaOwned, RouterFacts!TypeOK,
    RouterFacts!RouterAssumption
<1>2. RouterFacts!Safety => []RouterFacts!Routing
  BY RouterAssumed, RouterFacts!RoutingInvariant DEF RouterFacts!RouterAssumption
<1> QED
  BY <1>1, <1>2, FactsApply, PTL

\* A call under a request_id of its own gets the answer to its own command or none,
\* whatever streams, evictions and expiries its result passes through.
THEOREM GatewayAnswersOwn == CommandsSafety => []Router!AnswersOwnCommand
<1>1. RouterFacts!AnswersOwnCommand => Router!AnswersOwnCommand
  BY DEF RouterFacts!AnswersOwnCommand, Router!AnswersOwnCommand, RouterFacts!Unshared,
    Router!Unshared
<1>2. RouterFacts!Safety => []RouterFacts!AnswersOwnCommand
  BY RouterAssumed, RouterFacts!OwnAnswers DEF RouterFacts!RouterAssumption
<1> QED
  BY <1>1, <1>2, FactsApply, PTL

\* In the gateway too the map holds the channels of running calls only, and that of
\* every call that waits under a request_id of its own.
THEOREM GatewayWaiters ==
  CommandsSafety => [](Router!NoWaiterLeak /\ Router!WaitingIsReachable)
<1>1. RouterFacts!NoWaiterLeak => Router!NoWaiterLeak
  BY DEF RouterFacts!NoWaiterLeak, Router!NoWaiterLeak
<1>2. RouterFacts!WaitingIsReachable => Router!WaitingIsReachable
  BY DEF RouterFacts!WaitingIsReachable, Router!WaitingIsReachable, RouterFacts!Unshared,
    Router!Unshared
<1>3. RouterFacts!Safety => []RouterFacts!NoWaiterLeak
  BY RouterAssumed, RouterFacts!WaitersDoNotLeak DEF RouterFacts!RouterAssumption
<1>4. RouterFacts!Safety => []RouterFacts!WaitingIsReachable
  BY RouterAssumed, RouterFacts!WaitersStay DEF RouterFacts!RouterAssumption
<1> QED
  BY <1>1, <1>2, <1>3, <1>4, FactsApply, PTL

\* Callers of the whole gateway's Send are kept the promise of CommandCalls.
THEOREM GatewayKeepsPromise == CommandsSafety => Router!ImplementsCalls
<1>1. RouterFacts!Promised!CallsInit => Router!Promised!CallsInit
  BY DEF RouterFacts!Promised!CallsInit, Router!Promised!CallsInit
<1>2. [RouterFacts!Promised!CallsNext]_(RouterFacts!Promised!callsVars)
        => [Router!Promised!CallsNext]_(Router!Promised!callsVars)
  BY DEF
    Router!Promised!CallsNext, Router!Promised!callsVars, Router!Promised!Give,
    Router!Promised!ReturnResult, Router!Promised!ReturnUnavailable,
    Router!Promised!ReturnContextOver, Router!Promised!Return, Router!Promised!Open,
    RouterFacts!Promised!CallsNext, RouterFacts!Promised!callsVars,
    RouterFacts!Promised!Give, RouterFacts!Promised!ReturnResult,
    RouterFacts!Promised!ReturnUnavailable, RouterFacts!Promised!ReturnContextOver,
    RouterFacts!Promised!Return, RouterFacts!Promised!Open
<1>3. RouterFacts!Safety => RouterFacts!ImplementsCalls
  BY RouterAssumed, RouterFacts!CallsRefined DEF RouterFacts!RouterAssumption
<1> QED
  BY <1>1, <1>2, <1>3, FactsApply, PTL
  DEF RouterFacts!ImplementsCalls, Router!ImplementsCalls, RouterFacts!Promised!CallsSpec,
    Router!Promised!CallsSpec
=============================================================================
