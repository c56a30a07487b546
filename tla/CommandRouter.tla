---------------------------- MODULE CommandRouter ----------------------------
(***************************************************************************)
(* The command router of kd-gateway (internal/core/agent/router/router.go) *)
(* over AgentPresence, which AgentStreams implements.                      *)
(*                                                                         *)
(* A call k \in Calls is one invocation of Send, run by a goroutine of its *)
(* own; the channel it makes, with its place for one result, is named by   *)
(* the call too.  Deliver runs on the handler goroutine of the stream the  *)
(* result came in on, so a stream delivers one result at a time.  A result *)
(* is named by the call whose command it answers; its request_id is that   *)
(* command's.                                                              *)
(*                                                                         *)
(* pc[k]:  "start"    about to look the agent up                           *)
(*         "add"      has its stream, about to add its waiter              *)
(*         "send"     waiter added, about to call stream.Send              *)
(*         "sending"  inside stream.Send                                   *)
(*         "wait"     at the select over the result and ctx.Done()         *)
(*         "remove"   outcome known, the deferred removeWaiter pending     *)
(*         "returned"                                                      *)
(***************************************************************************)
EXTENDS AgentPresence

CONSTANTS
  Calls, NoCall,
  Requests         \* the request_ids that callers choose from

\* The gRPC status errors of Send: agent offline or stream.Send failed, and the
\* context's own error.
Failures == {"Unavailable", "ContextOver"}

ASSUME RouterAssumption ==
  /\ NoStream \notin Streams
  /\ NoCaller \notin CallerIDs
  /\ NoCall \notin Calls \cup Failures
  /\ Failures \cap Calls = {}

VARIABLES
  requestOf,       \* the request_id of each call's command, as its caller chose it
  waiters,         \* request_id -> the call whose channel the map holds
  pc, target, via, \* per call: where it is, caller_id asked for, stream found
  buffer,          \* per call: the result in its channel
  outcome,         \* per call: what Send returns
  ctxDone,         \* the calls whose context is over
  sent,            \* the calls whose command was given to their stream
  delivery         \* per stream: the Deliver in progress, result and channel

callVars == <<pc, target, via, outcome>>
vars == <<presence, owner, requestOf, waiters, pc, target, via, buffer, outcome, ctxDone,
          sent, delivery>>

NoDelivery == [result |-> NoCall, to |-> NoCall]
Pcs == {"start", "add", "send", "sending", "wait", "remove", "returned"}

TypeOK ==
  /\ presence \in [CallerIDs -> Streams \cup {NoStream}]
  /\ owner \in [Streams -> CallerIDs \cup {NoCaller}]
  /\ requestOf \in [Calls -> Requests]
  /\ waiters \in [Requests -> Calls \cup {NoCall}]
  /\ pc \in [Calls -> Pcs]
  /\ target \in [Calls -> CallerIDs \cup {NoCaller}]
  /\ via \in [Calls -> Streams \cup {NoStream}]
  /\ buffer \in [Calls -> Calls \cup {NoCall}]
  /\ outcome \in [Calls -> Calls \cup Failures \cup {NoCall}]
  /\ ctxDone \subseteq Calls
  /\ sent \subseteq Calls
  /\ delivery \in [Streams -> [result : Calls, to : Calls] \cup {NoDelivery}]

\* Any two commands may carry the same request_id: nothing keeps callers from it,
\* and a retry of a command would.
Init ==
  /\ PresenceInit
  /\ requestOf \in [Calls -> Requests]
  /\ waiters = [r \in Requests |-> NoCall]
  /\ pc = [k \in Calls |-> "start"]
  /\ target = [k \in Calls |-> NoCaller]
  /\ via = [k \in Calls |-> NoStream]
  /\ buffer = [k \in Calls |-> NoCall]
  /\ outcome = [k \in Calls |-> NoCall]
  /\ ctxDone = {}
  /\ sent = {}
  /\ delivery = [s \in Streams |-> NoDelivery]

-----------------------------------------------------------------------------
(* Send.                                                                   *)

Goto(k, label) == pc' = [pc EXCEPT ![k] = label]

Finish(k, label, result) ==
  /\ Goto(k, label)
  /\ outcome' = [outcome EXCEPT ![k] = result]

\* Mutant: the second result of GetConnectedStream is not looked at.
LookUpAgent_Unchecked(k, c) ==
  /\ pc[k] = "start"
  /\ target' = [target EXCEPT ![k] = c]
  /\ via' = [via EXCEPT ![k] = presence[c]]
  /\ Goto(k, "add")
  /\ UNCHANGED <<presenceVars, waiters, outcome, buffer, ctxDone, sent, delivery>>

\* The look-up: without a connected stream Send fails at once.
LookUpAgent(k, c) ==
  /\ pc[k] = "start"
  /\ target' = [target EXCEPT ![k] = c]
  /\ via' = [via EXCEPT ![k] = presence[c]]
  /\ IF presence[c] = NoStream
       THEN Finish(k, "returned", "Unavailable")
       ELSE Goto(k, "add") /\ UNCHANGED outcome
  /\ UNCHANGED <<presenceVars, waiters, buffer, ctxDone, sent, delivery>>

AddWaiter(k) ==
  /\ pc[k] = "add"
  /\ waiters' = [waiters EXCEPT ![requestOf[k]] = k]
  /\ Goto(k, "send")
  /\ UNCHANGED <<presenceVars, target, via, outcome, buffer, ctxDone, sent, delivery>>

\* From here on the agent may have the command, whatever stream.Send returns and
\* whenever: its answer can arrive before that.
CallStreamSend(k) ==
  /\ pc[k] = "send"
  /\ Goto(k, "sending")
  /\ sent' = sent \cup {k}
  /\ UNCHANGED <<presenceVars, waiters, target, via, outcome, buffer, ctxDone, delivery>>

\* Mutant: the waiter is removed after a result or a timeout only.
StreamSendReturns_NoDefer(k) ==
  /\ pc[k] = "sending"
  /\ \/ Goto(k, "wait") /\ UNCHANGED outcome
     \/ Finish(k, "returned", "Unavailable")
  /\ UNCHANGED <<presenceVars, waiters, target, via, buffer, ctxDone, sent, delivery>>

\* The stream was looked up earlier and may be over by now.
StreamSendReturns(k) ==
  /\ pc[k] = "sending"
  /\ \/ Goto(k, "wait") /\ UNCHANGED outcome
     \/ Finish(k, "remove", "Unavailable")
  /\ UNCHANGED <<presenceVars, waiters, target, via, buffer, ctxDone, sent, delivery>>

\* Mutant: results are taken until the context is over; the last word counts.
TakeResult_Streams(k) ==
  /\ pc[k] = "wait"
  /\ buffer[k] # NoCall
  /\ Finish(k, "wait", buffer[k])
  /\ buffer' = [buffer EXCEPT ![k] = NoCall]
  /\ UNCHANGED <<presenceVars, waiters, target, via, ctxDone, sent, delivery>>

\* Mutant: a result counts only while the waiter is still the call's own.
TakeResult_OwnWaiter(k) ==
  /\ pc[k] = "wait"
  /\ buffer[k] # NoCall
  /\ waiters[requestOf[k]] = k
  /\ Finish(k, "remove", buffer[k])
  /\ buffer' = [buffer EXCEPT ![k] = NoCall]
  /\ UNCHANGED <<presenceVars, waiters, target, via, ctxDone, sent, delivery>>

TakeResult(k) ==
  /\ pc[k] = "wait"
  /\ buffer[k] # NoCall
  /\ Finish(k, "remove", buffer[k])
  /\ buffer' = [buffer EXCEPT ![k] = NoCall]
  /\ UNCHANGED <<presenceVars, waiters, target, via, ctxDone, sent, delivery>>

TakeDone(k) ==
  /\ pc[k] = "wait"
  /\ k \in ctxDone
  /\ Finish(k, "remove", "ContextOver")
  /\ UNCHANGED <<presenceVars, waiters, target, via, buffer, ctxDone, sent, delivery>>

\* Mutant: the map is emptied.
RemoveWaiter_All(k) ==
  /\ pc[k] = "remove"
  /\ waiters' = [r \in Requests |-> NoCall]
  /\ Goto(k, "returned")
  /\ UNCHANGED <<presenceVars, target, via, outcome, buffer, ctxDone, sent, delivery>>

\* Whatever channel the map holds for the request_id goes.
RemoveWaiter(k) ==
  /\ pc[k] = "remove"
  /\ waiters' = [waiters EXCEPT ![requestOf[k]] = NoCall]
  /\ Goto(k, "returned")
  /\ UNCHANGED <<presenceVars, target, via, outcome, buffer, ctxDone, sent, delivery>>

-----------------------------------------------------------------------------
(* Deliver, on the handler goroutine of stream s: the channel is looked up *)
(* under the lock and used after it is released.                           *)

\* Mutant: the result goes on to a channel that was not found.
LookUpWaiter_Unchecked(s, k) ==
  /\ owner[s] # NoCaller
  /\ delivery[s] = NoDelivery
  /\ k \in sent
  /\ delivery' = [delivery EXCEPT ![s].result = k, ![s].to = waiters[requestOf[k]]]
  /\ UNCHANGED <<presenceVars, waiters, callVars, buffer, ctxDone, sent>>

\* Mutant: the result goes to a waiter for the agent, whatever its request_id.
LookUpWaiter_ByAgent(s, k) ==
  /\ owner[s] # NoCaller
  /\ delivery[s] = NoDelivery
  /\ k \in sent
  /\ \E r \in Requests :
       /\ waiters[r] # NoCall
       /\ target[waiters[r]] = owner[s]
       /\ delivery' = [delivery EXCEPT ![s].result = k, ![s].to = waiters[r]]
  /\ UNCHANGED <<presenceVars, waiters, callVars, buffer, ctxDone, sent>>

\* An agent answers, perhaps twice or late, a command it was sent; the answer may
\* come in on any stream that was registered.  Without a waiter it is dropped.
LookUpWaiter(s, k) ==
  /\ owner[s] # NoCaller
  /\ delivery[s] = NoDelivery
  /\ k \in sent
  /\ delivery' = IF waiters[requestOf[k]] = NoCall
                   THEN delivery
                   ELSE [delivery EXCEPT ![s].result = k, ![s].to = waiters[requestOf[k]]]
  /\ UNCHANGED <<presenceVars, waiters, callVars, buffer, ctxDone, sent>>

\* Mutant: the send to the channel blocks while it is full.
OfferResult_Blocks(s) ==
  LET d == delivery[s] IN
  /\ d # NoDelivery
  /\ buffer[d.to] = NoCall
  /\ buffer' = [buffer EXCEPT ![d.to] = d.result]
  /\ delivery' = [delivery EXCEPT ![s] = NoDelivery]
  /\ UNCHANGED <<presenceVars, waiters, callVars, ctxDone, sent>>

\* A full channel drops the result instead of blocking the stream loop.
OfferResult(s) ==
  LET d == delivery[s] IN
  /\ d # NoDelivery
  /\ buffer' = IF buffer[d.to] = NoCall THEN [buffer EXCEPT ![d.to] = d.result] ELSE buffer
  /\ delivery' = [delivery EXCEPT ![s] = NoDelivery]
  /\ UNCHANGED <<presenceVars, waiters, callVars, ctxDone, sent>>

-----------------------------------------------------------------------------
\* A context may be over at any time; only a call that waits looks at it, so one
\* that was over before is as good as one that is over at once.
ContextOver(k) ==
  /\ pc[k] = "wait"
  /\ ctxDone' = ctxDone \cup {k}
  /\ UNCHANGED <<presenceVars, waiters, callVars, buffer, sent, delivery>>

AgentsChange ==
  /\ PresenceNext
  /\ UNCHANGED <<waiters, callVars, buffer, ctxDone, sent, delivery>>

\* The steps of Send that depend on nobody else.
OwnStep(k) ==
  AddWaiter(k) \/ CallStreamSend(k) \/ TakeResult(k) \/ TakeDone(k) \/ RemoveWaiter(k)

SendStep(k) ==
  (\E c \in CallerIDs : LookUpAgent(k, c)) \/ StreamSendReturns(k) \/ OwnStep(k)

RouterNext ==
  \/ AgentsChange
  \/ \E k \in Calls : SendStep(k) \/ ContextOver(k)
  \/ \E s \in Streams : OfferResult(s) \/ \E k \in Calls : LookUpWaiter(s, k)

Next == RouterNext /\ UNCHANGED requestOf

Safety == Init /\ [][Next]_vars

\* Goroutines run.  Agents need not answer, contexts need not end, and stream.Send
\* need not return: it waits for flow control, whatever becomes of ctx.
Fairness ==
  /\ \A k \in Calls : WF_vars(OwnStep(k) /\ UNCHANGED requestOf)
  /\ \A s \in Streams : WF_vars(OfferResult(s) /\ UNCHANGED requestOf)

Spec == Safety /\ Fairness

-----------------------------------------------------------------------------
(* Properties.                                                             *)

\* A command is sent on a stream its target registered, never another agent's,
\* although the stream is looked up long before it is used.
SentToTarget ==
  \A k \in sent : via[k] \in Streams /\ owner[via[k]] = target[k]

\* No other call's command carries the request_id of k's.
Unshared(k) == \A j \in Calls \ {k} : requestOf[j] # requestOf[k]

\* What a call returns, and what waits in its channel, answers the command of
\* this call and was caused by it: no result crosses over to a caller whose
\* request_id is its own, though others may share theirs.
AnswersOwnCommand ==
  \A k \in Calls : Unshared(k) =>
    /\ buffer[k] # NoCall => buffer[k] = k /\ k \in sent
    /\ outcome[k] \in Calls => outcome[k] = k /\ k \in sent

\* While a call waits, the map holds its channel: the answer can reach it, unless
\* another call has replaced or removed it.
WaitingIsReachable ==
  \A k \in Calls : Unshared(k) /\ pc[k] \in {"send", "sending", "wait", "remove"} =>
    waiters[requestOf[k]] = k

\* The map holds channels of running calls only: no way out of Send leaves a
\* waiter behind (router.go:65).
NoWaiterLeak ==
  \A r \in Requests : waiters[r] # NoCall =>
    pc[waiters[r]] \in {"send", "sending", "wait", "remove"}

Promised == INSTANCE CommandCalls WITH given <- sent, answer <- outcome

\* What Send does to its caller is what CommandCalls promises: one outcome that
\* never changes, a result of a command under the call's own request_id whoever
\* shares that, and no command that goes out once its caller has been answered
\* (router.go:46-98).
ImplementsCalls == Promised!CallsSpec

\* Two goroutines are never inside Send of one gRPC stream, which gRPC forbids
\* ("all exported methods are safe for concurrent use", router.go:12).
OneSenderPerStream ==
  \A j, k \in Calls : j # k /\ pc[j] = "sending" /\ pc[k] = "sending" => via[j] # via[k]

\* A call that is waiting returns when its context is over, and when an answer has
\* found its channel, even if its waiter was replaced or removed meanwhile.
WaitingReturns ==
  \A k \in Calls :
    (pc[k] = "wait" /\ (k \in ctxDone \/ \E s \in Streams : delivery[s].to = k))
      ~> (pc[k] = "returned")

\* A result never holds up the loop of the stream it came in on.
DeliverReturns == \A s \in Streams : (delivery[s] # NoDelivery) ~> (delivery[s] = NoDelivery)
=============================================================================
