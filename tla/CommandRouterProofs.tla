------------------------- MODULE CommandRouterProofs -------------------------
(***************************************************************************)
(* Theorems about CommandRouter, for every set of calls, agents, streams   *)
(* and request_ids; the last two for calls whose request_id is their own.  *)
(***************************************************************************)
EXTENDS CommandRouter, TLAPS

USE RouterAssumption

-----------------------------------------------------------------------------
(* Types.                                                                  *)

LEMMA TypeInit == Init => TypeOK
BY DEF Init, PresenceInit, TypeOK, Pcs, NoDelivery

LEMMA TypeStep == TypeOK /\ [Next]_vars => TypeOK'
<1> SUFFICES ASSUME TypeOK, [Next]_vars PROVE TypeOK'
  OBVIOUS
<1>0. UNCHANGED requestOf
  BY DEF Next, vars
<1> USE <1>0 DEF TypeOK, Pcs, Failures, Goto, Finish, presenceVars, callVars
<1>1. CASE UNCHANGED vars
  BY <1>1 DEF vars
<1>2. CASE AgentsChange
  BY <1>2 DEF AgentsChange, PresenceNext, Vanish, Appear
<1>3. ASSUME NEW k \in Calls, SendStep(k) PROVE TypeOK'
  <2>1. ASSUME NEW c \in CallerIDs, LookUpAgent(k, c) PROVE TypeOK'
    BY <2>1 DEF LookUpAgent
  <2>2. CASE AddWaiter(k) \/ CallStreamSend(k) \/ StreamSendReturns(k)
    BY <2>2 DEF AddWaiter, CallStreamSend, StreamSendReturns
  <2>3. CASE TakeResult(k) \/ TakeDone(k) \/ RemoveWaiter(k)
    BY <2>3 DEF TakeResult, TakeDone, RemoveWaiter
  <2> QED
    BY <1>3, <2>1, <2>2, <2>3 DEF SendStep, OwnStep
<1>4. ASSUME NEW k \in Calls, ContextOver(k) PROVE TypeOK'
  BY <1>4 DEF ContextOver
<1>5. ASSUME NEW s \in Streams, OfferResult(s) PROVE TypeOK'
  BY <1>5 DEF OfferResult, NoDelivery
<1>6. ASSUME NEW s \in Streams, NEW k \in Calls, LookUpWaiter(s, k) PROVE TypeOK'
  BY <1>6 DEF LookUpWaiter, NoDelivery
<1> QED
  BY <1>1, <1>2, <1>3, <1>4, <1>5, <1>6 DEF Next, RouterNext

\* TypeOK is an invariant: the router never delivers to a channel it did not find.
THEOREM TypeCorrect == Safety => []TypeOK
BY TypeInit, TypeStep, PTL DEF Safety

-----------------------------------------------------------------------------
(* Routing.                                                                *)

InFlight == {"add", "send", "sending", "wait", "remove"}

\* The stream a call found belongs to its target for ever after.
ViaOwned ==
  \A k \in Calls :
    /\ pc[k] = "start" => via[k] = NoStream /\ k \notin sent
    /\ pc[k] \in InFlight \/ k \in sent => via[k] # NoStream
    /\ via[k] # NoStream => target[k] \in CallerIDs /\ owner[via[k]] = target[k]

\* Waiters, deliveries, buffers and outcomes agree on request_ids, and results are
\* those of commands that were sent.
RequestsMatch ==
  /\ \A r \in Requests : waiters[r] # NoCall => requestOf[waiters[r]] = r
  /\ \A s \in Streams : delivery[s] # NoDelivery =>
       delivery[s].result \in sent /\ requestOf[delivery[s].to] = requestOf[delivery[s].result]
  /\ \A k \in Calls : buffer[k] # NoCall =>
       buffer[k] \in sent /\ requestOf[buffer[k]] = requestOf[k]
  /\ \A k \in Calls : outcome[k] \in Calls =>
       outcome[k] \in sent /\ requestOf[outcome[k]] = requestOf[k]

Routing ==
  /\ TypeOK
  /\ RoutesToOwner
  /\ ViaOwned
  /\ RequestsMatch
  /\ NoWaiterLeak

LEMMA RoutingInit == Init => Routing
<1> SUFFICES ASSUME Init PROVE Routing
  OBVIOUS
<1> QED
  BY TypeInit DEF Init, PresenceInit, Routing, RoutesToOwner, ViaOwned, RequestsMatch,
    NoWaiterLeak, InFlight

LEMMA RoutingStep == Routing /\ [Next]_vars => Routing'
<1> SUFFICES ASSUME Routing, [Next]_vars PROVE Routing'
  OBVIOUS
<1>0. TypeOK' /\ UNCHANGED requestOf
  BY TypeStep DEF Routing, Next, vars
<1> USE <1>0 DEF Routing, TypeOK, presenceVars, callVars, Goto, Finish
<1>1. CASE UNCHANGED vars
  BY <1>1 DEF vars, RoutesToOwner, ViaOwned, RequestsMatch, NoWaiterLeak
<1>2. CASE AgentsChange
  <2>1. \A s \in Streams : owner[s] # NoCaller => owner'[s] = owner[s]
    BY <1>2 DEF AgentsChange, PresenceNext, Vanish, Appear
  <2>2. RoutesToOwner'
    <3>1. CASE Vanish
      BY <3>1 DEF Vanish, RoutesToOwner
    <3>2. ASSUME NEW c \in CallerIDs, NEW s \in Streams, Appear(c, s) PROVE RoutesToOwner'
      BY <2>1, <3>2 DEF Appear, RoutesToOwner
    <3> QED
      BY <1>2, <3>1, <3>2 DEF AgentsChange, PresenceNext
  <2>3. ViaOwned'
    BY <1>2, <2>1 DEF AgentsChange, ViaOwned
  <2>4. RequestsMatch' /\ NoWaiterLeak'
    BY <1>2 DEF AgentsChange, RequestsMatch, NoWaiterLeak
  <2> QED
    BY <2>2, <2>3, <2>4
<1>3. ASSUME NEW k \in Calls, SendStep(k) PROVE Routing'
  <2>0. RoutesToOwner'
    BY <1>3 DEF SendStep, OwnStep, LookUpAgent, AddWaiter, CallStreamSend, StreamSendReturns,
      TakeResult, TakeDone, RemoveWaiter, RoutesToOwner
  <2>1. ASSUME NEW c \in CallerIDs, LookUpAgent(k, c) PROVE Routing'
    <3>1. ViaOwned'
      BY <2>1 DEF LookUpAgent, ViaOwned, RoutesToOwner, InFlight
    <3>2. RequestsMatch' /\ NoWaiterLeak'
      BY <2>1 DEF LookUpAgent, RequestsMatch, NoWaiterLeak, Failures
    <3> QED
      BY <2>0, <3>1, <3>2
  <2>2. CASE AddWaiter(k)
    <3>1. ViaOwned'
      BY <2>2 DEF AddWaiter, ViaOwned, InFlight
    <3>2. RequestsMatch' /\ NoWaiterLeak'
      BY <2>2 DEF AddWaiter, RequestsMatch, NoWaiterLeak
    <3> QED
      BY <2>0, <3>1, <3>2
  <2>3. CASE CallStreamSend(k)
    <3>1. ViaOwned'
      BY <2>3 DEF CallStreamSend, ViaOwned, InFlight
    <3>2. RequestsMatch' /\ NoWaiterLeak'
      BY <2>3 DEF CallStreamSend, RequestsMatch, NoWaiterLeak
    <3> QED
      BY <2>0, <3>1, <3>2
  <2>4. CASE StreamSendReturns(k) \/ TakeDone(k)
    <3>1. ViaOwned'
      BY <2>4 DEF StreamSendReturns, TakeDone, ViaOwned, InFlight
    <3>2. RequestsMatch' /\ NoWaiterLeak'
      BY <2>4 DEF StreamSendReturns, TakeDone, RequestsMatch, NoWaiterLeak,
        Failures
    <3> QED
      BY <2>0, <3>1, <3>2
  <2>5. CASE TakeResult(k)
    <3>1. ViaOwned'
      BY <2>5 DEF TakeResult, ViaOwned, InFlight
    <3>2. RequestsMatch' /\ NoWaiterLeak'
      BY <2>5 DEF TakeResult, RequestsMatch, NoWaiterLeak
    <3> QED
      BY <2>0, <3>1, <3>2
  <2>6. CASE RemoveWaiter(k)
    <3>1. ViaOwned'
      BY <2>6 DEF RemoveWaiter, ViaOwned, InFlight
    <3>2. RequestsMatch' /\ NoWaiterLeak'
      BY <2>6 DEF RemoveWaiter, RequestsMatch, NoWaiterLeak
    <3> QED
      BY <2>0, <3>1, <3>2
  <2> QED
    BY <1>3, <2>1, <2>2, <2>3, <2>4, <2>5, <2>6 DEF SendStep, OwnStep
<1>4. ASSUME NEW k \in Calls, ContextOver(k) PROVE Routing'
  BY <1>4 DEF ContextOver, RoutesToOwner, ViaOwned, RequestsMatch, NoWaiterLeak
<1>5. ASSUME NEW s \in Streams, OfferResult(s) PROVE Routing'
  <2>1. RequestsMatch'
    BY <1>5 DEF OfferResult, RequestsMatch, NoDelivery
  <2> QED
    BY <1>5, <2>1 DEF OfferResult, RoutesToOwner, ViaOwned, NoWaiterLeak
<1>6. ASSUME NEW s \in Streams, NEW k \in Calls, LookUpWaiter(s, k) PROVE Routing'
  <2>1. RequestsMatch'
    BY <1>6 DEF LookUpWaiter, RequestsMatch, NoDelivery
  <2> QED
    BY <1>6, <2>1 DEF LookUpWaiter, RoutesToOwner, ViaOwned, NoWaiterLeak
<1> QED
  BY <1>1, <1>2, <1>3, <1>4, <1>5, <1>6 DEF Next, RouterNext

LEMMA RoutingInvariant == Safety => []Routing
BY RoutingInit, RoutingStep, PTL DEF Safety

\* Commands go out on streams of their target only, whatever happens to the agents
\* between the look-up and stream.Send.
THEOREM CommandsReachTarget == Safety => []SentToTarget
<1>1. Routing => SentToTarget
  BY DEF Routing, ViaOwned, SentToTarget, TypeOK
<1> QED
  BY <1>1, RoutingInvariant, PTL

\* No way out of Send leaves a waiter behind, even when request_ids are shared.
THEOREM WaitersDoNotLeak == Safety => []NoWaiterLeak
<1>1. Routing => NoWaiterLeak
  BY DEF Routing
<1> QED
  BY <1>1, RoutingInvariant, PTL

-----------------------------------------------------------------------------
(* Callers whose request_id is their own.                                  *)

\* Every such call gets the answer to its own command, or none.
THEOREM OwnAnswers == Safety => []AnswersOwnCommand
<1>1. Routing => AnswersOwnCommand
  BY DEF Routing, RequestsMatch, AnswersOwnCommand, Unshared, TypeOK
<1> QED
  BY <1>1, RoutingInvariant, PTL

\* The waiter of such a call stays in the map as long as the call runs.
THEOREM WaitersStay == Safety => []WaitingIsReachable
<1>1. Init => WaitingIsReachable
  BY DEF Init, WaitingIsReachable
<1>2. TypeOK /\ WaitingIsReachable /\ [Next]_vars => WaitingIsReachable'
  <2> SUFFICES ASSUME TypeOK, WaitingIsReachable, [Next]_vars PROVE WaitingIsReachable'
    OBVIOUS
  <2>0. UNCHANGED requestOf
    BY DEF Next, vars
  <2> USE DEF TypeOK, WaitingIsReachable, Unshared, Goto, Finish, callVars
  <2>1. CASE UNCHANGED vars \/ AgentsChange
    BY <2>0, <2>1 DEF vars, AgentsChange
  <2>2. ASSUME NEW k \in Calls, SendStep(k) \/ ContextOver(k) PROVE WaitingIsReachable'
    BY <2>0, <2>2 DEF SendStep, OwnStep, LookUpAgent, AddWaiter, CallStreamSend,
      StreamSendReturns, TakeResult, TakeDone, RemoveWaiter, ContextOver
  <2>3. ASSUME NEW s \in Streams, OfferResult(s) \/ \E k \in Calls : LookUpWaiter(s, k)
        PROVE  WaitingIsReachable'
    BY <2>0, <2>3 DEF OfferResult, LookUpWaiter
  <2> QED
    BY <2>1, <2>2, <2>3 DEF Next, RouterNext
<1> QED
  BY <1>1, <1>2, TypeCorrect, PTL DEF Safety
-----------------------------------------------------------------------------
(* What callers are promised.                                              *)

\* A call is answered when it leaves Send's body, and waits for an answer only
\* after its command has gone out.
Progress ==
  \A k \in Calls :
    /\ pc[k] \in {"start", "add", "send"} => k \notin sent
    /\ pc[k] \in {"sending", "wait"} => k \in sent
    /\ pc[k] \in {"start", "add", "send", "sending", "wait"} => outcome[k] = NoCall

LEMMA ProgressStep == TypeOK /\ Progress /\ [Next]_vars => Progress'
<1> SUFFICES ASSUME TypeOK, Progress, [Next]_vars PROVE Progress'
  OBVIOUS
<1> USE DEF TypeOK, Progress, Goto, Finish, callVars
<1>1. CASE UNCHANGED vars \/ AgentsChange
  BY <1>1 DEF vars, AgentsChange
<1>2. ASSUME NEW k \in Calls, SendStep(k) \/ ContextOver(k) PROVE Progress'
  <2>1. ASSUME NEW c \in CallerIDs, LookUpAgent(k, c) PROVE Progress'
    BY <2>1 DEF LookUpAgent
  <2>2. CASE StreamSendReturns(k) \/ TakeDone(k) \/ ContextOver(k)
    BY <2>2 DEF StreamSendReturns, TakeDone, ContextOver
  <2>3. CASE AddWaiter(k) \/ CallStreamSend(k) \/ TakeResult(k) \/ RemoveWaiter(k)
    BY <2>3 DEF AddWaiter, CallStreamSend, TakeResult, RemoveWaiter
  <2> QED
    BY <1>2, <2>1, <2>2, <2>3 DEF SendStep, OwnStep
<1>3. ASSUME NEW s \in Streams, OfferResult(s) \/ \E k \in Calls : LookUpWaiter(s, k)
      PROVE  Progress'
  BY <1>3 DEF OfferResult, LookUpWaiter
<1> QED
  BY <1>1, <1>2, <1>3 DEF Next, RouterNext

LEMMA ProgressInvariant == Safety => []Progress
<1>1. Init => Progress
  BY DEF Init, Progress
<1> QED
  BY <1>1, ProgressStep, TypeCorrect, PTL DEF Safety

\* A step of Send is a step of the promise for its call, or shows nothing of it.
LEMMA SendStepPromised ==
  ASSUME Routing, Progress, UNCHANGED requestOf, NEW k \in Calls, SendStep(k)
  PROVE  [Promised!CallsNext]_(Promised!callsVars)
<1> USE DEF Routing, TypeOK, Progress, Goto, Finish, Promised!CallsNext, Promised!callsVars,
          Promised!Return, Promised!Open
<1>1. ASSUME NEW c \in CallerIDs, LookUpAgent(k, c)
      PROVE  [Promised!CallsNext]_(Promised!callsVars)
  BY <1>1 DEF LookUpAgent, Promised!ReturnUnavailable
<1>2. CASE AddWaiter(k) \/ RemoveWaiter(k)
  BY <1>2 DEF AddWaiter, RemoveWaiter
<1>3. CASE CallStreamSend(k)
  BY <1>3 DEF CallStreamSend, Promised!Give
<1>4. CASE StreamSendReturns(k)
  BY <1>4 DEF StreamSendReturns, Promised!ReturnUnavailable
<1>5. CASE TakeResult(k)
  BY <1>5 DEF TakeResult, RequestsMatch, Promised!ReturnResult
<1>6. CASE TakeDone(k)
  BY <1>6 DEF TakeDone, Promised!ReturnContextOver
<1> QED
  BY <1>1, <1>2, <1>3, <1>4, <1>5, <1>6 DEF SendStep, OwnStep

\* The router implements what CommandCalls promises callers, whatever request_ids
\* they choose and whatever becomes of the agents.
THEOREM CallsRefined == Safety => ImplementsCalls
<1>1. Init => Promised!CallsInit
  BY DEF Init, Promised!CallsInit
<1>2. Routing /\ Progress /\ [Next]_vars => [Promised!CallsNext]_(Promised!callsVars)
  <2> SUFFICES ASSUME Routing, Progress, [Next]_vars
               PROVE  [Promised!CallsNext]_(Promised!callsVars)
    OBVIOUS
  <2>1. CASE UNCHANGED vars \/ (AgentsChange /\ UNCHANGED requestOf)
    BY <2>1 DEF vars, AgentsChange, callVars, Promised!callsVars
  <2>2. ASSUME NEW k \in Calls, SendStep(k), UNCHANGED requestOf
        PROVE  [Promised!CallsNext]_(Promised!callsVars)
    BY <2>2, SendStepPromised
  <2>3. ASSUME NEW k \in Calls, ContextOver(k), UNCHANGED requestOf
        PROVE  [Promised!CallsNext]_(Promised!callsVars)
    BY <2>3 DEF ContextOver, callVars, Promised!callsVars
  <2>4. ASSUME NEW s \in Streams, OfferResult(s) \/ \E k \in Calls : LookUpWaiter(s, k),
               UNCHANGED requestOf
        PROVE  [Promised!CallsNext]_(Promised!callsVars)
    BY <2>4 DEF OfferResult, LookUpWaiter, callVars, Promised!callsVars
  <2> QED
    BY <2>1, <2>2, <2>3, <2>4 DEF Next, RouterNext
<1> QED
  BY <1>1, <1>2, RoutingInvariant, ProgressInvariant, PTL
  DEF Safety, ImplementsCalls, Promised!CallsSpec
=============================================================================
