------------------------- MODULE GatewayRequestsProofs -------------------------
(***************************************************************************)
(* Theorems about GatewayRequests, for every set of callers, streams,      *)
(* requests and environments.  The gauge needs finitely many streams, the  *)
(* accounts finitely many RPCs.                                            *)
(***************************************************************************)
EXTENDS GatewayRequests, AgentStreamsProofs, HttpMiddlewareProofs, FiniteSetTheorems

USE RegistryAssumption, StreamsAssumption, RequestsAssumption DEF Connected

-----------------------------------------------------------------------------
(* The kinds of steps, and what each leaves alone.                         *)

Starts == Construct \/ ConstructFails \/ TickerPanics

Calls == (\E h \in Checks : CheckAnswers(h)) \/ \E x \in Rpcs : Returns(x)

Http(r) == Lists(r) \/ ServeRoute(r)

LEMMA StepKinds ==
  [RequestsNext]_requestVars =>
    \/ StreamsRun \/ Starts \/ Calls
    \/ \E r \in Requests : Http(r)
    \/ UNCHANGED requestVars
BY DEF RequestsNext, Serves, Starts, Calls, Http

LEMMA StartsLeave == Starts => UNCHANGED <<vars, env, lastHello, rpcVars, httpVars>>
BY DEF Starts, Construct, ConstructFails, TickerPanics, Process

LEMMA CallsLeave == Calls => UNCHANGED <<vars, processVars, lastHello, httpVars>>
BY DEF Calls, CheckAnswers, Returns, Meters, LogsCall, Tells, ReturnsThrough

LEMMA HttpLeaves ==
  ASSUME NEW r \in Requests, Http(r)
  PROVE  UNCHANGED <<vars, processVars, lastHello, rpcVars>>
BY DEF Http, Lists, ServeRoute, ListEntries, Summarise, ListAgents, NextRequest, HttpStep

\* Every step is one of AgentStreams or none for it.
LEMMA StreamsRefined == [RequestsNext]_requestVars => [Next]_vars
BY StepKinds, StartsLeave, CallsLeave, HttpLeaves DEF StreamsRun, Next, requestVars

\* Interceptors, requests and a configured start add nothing to what handlers, monitor
\* and clock do: the gateway's behaviours are behaviours of AgentStreams, and those who
\* route commands are kept the promise of AgentPresence.
THEOREM RequestsKeepHandlers == RequestsSpec => Safety /\ ImplementsPresence
<1>1. RequestsInit => Init
  BY DEF RequestsInit
<1>2. RequestsSpec => Safety
  BY <1>1, StreamsRefined, PTL DEF RequestsSpec, Safety
<1> QED
  BY <1>2, PresenceRefined, PTL

-----------------------------------------------------------------------------
(* A listing takes its rows from its copies.                               *)

\* How far the loop has come.
FromCopies(r) ==
  /\ stage[r] = "idle" => summaries[r] = NoRows
  /\ stage[r] = "listing" =>
       \A c \in CallerIDs \ left[r] : summaries[r][c] = Summary(copies[r][c])
  /\ stage[r] = "listed" => summaries[r] = [c \in CallerIDs |-> Summary(copies[r][c])]

IsRows(f) == f = [c \in CallerIDs |-> f[c]]

Listings ==
  /\ stage \in [Requests -> {"idle", "listing", "listed", "answered"}]
  /\ DOMAIN copies = Requests /\ DOMAIN left = Requests
  /\ DOMAIN summaries = Requests
  /\ \A r \in Requests : IsRows(summaries[r]) /\ FromCopies(r)

LEMMA ListingsInit == RequestsInit => Listings
BY DEF RequestsInit, Listings, IsRows, FromCopies, NoRows

LEMMA SummariseKeeps ==
  ASSUME Listings, NEW r \in Requests, NEW c \in CallerIDs, Summarise(r, c)
  PROVE  Listings'
<1> USE DEF Listings
<1>1. /\ stage[r] = "listing" /\ stage' = stage
      /\ left' = [left EXCEPT ![r] = @ \ {c}]
      /\ summaries' = [summaries EXCEPT ![r][c] = Summary(copies[r][c])]
      /\ UNCHANGED copies
  BY DEF Summarise, HttpStep
<1>2. \A q \in Requests : q # r =>
        left'[q] = left[q] /\ summaries'[q] = summaries[q]
  BY <1>1
<1>3. summaries'[r] = [summaries[r] EXCEPT ![c] = Summary(copies[r][c])]
  BY <1>1
<1>4. IsRows(summaries[r]) /\ c \in DOMAIN summaries[r]
  BY DEF IsRows
<1>5. /\ \A d \in CallerIDs : d # c => summaries'[r][d] = summaries[r][d]
      /\ summaries'[r][c] = Summary(copies[r][c])
  BY <1>3, <1>4
<1>6. IsRows(summaries'[r])
  BY <1>3, <1>4 DEF IsRows
<1>7. ASSUME NEW q \in Requests PROVE IsRows(summaries'[q]) /\ FromCopies(q)'
  <2>1. CASE q # r
    BY <1>1, <1>2, <2>1 DEF FromCopies, IsRows
  <2>2. CASE q = r
    BY <1>1, <1>5, <1>6, <2>2 DEF FromCopies
  <2> QED
    BY <2>1, <2>2
<1> QED
  BY <1>1, <1>7 DEF IsRows

LEMMA ListEntriesKeeps ==
  ASSUME Listings, NEW r \in Requests, ListEntries(r)
  PROVE  Listings'
<1> USE DEF Listings
<1>1. /\ stage[r] = "idle" /\ stage' = [stage EXCEPT ![r] = "listing"]
      /\ copies' = [copies EXCEPT ![r] = [c \in CallerIDs |-> Copy(c)]]
      /\ left' = [left EXCEPT ![r] = {c \in CallerIDs : agents[c].status # "absent"}]
      /\ UNCHANGED summaries
  BY DEF ListEntries, HttpStep
<1>2. ASSUME NEW c \in CallerIDs \ left'[r] PROVE summaries'[r][c] = Summary(copies'[r][c])
  <2>1. agents[c].status = "absent"
    BY <1>1
  <2>2. Summary(Copy(c)) = NoRow
    BY <2>1 DEF Summary, Copy
  <2>3. summaries[r] = NoRows
    BY <1>1 DEF FromCopies
  <2> QED
    BY <1>1, <2>2, <2>3 DEF NoRows
<1>3. ASSUME NEW q \in Requests PROVE FromCopies(q)'
  <2>1. CASE q # r
    BY <1>1, <2>1 DEF FromCopies
  <2>2. CASE q = r
    BY <1>1, <1>2, <2>2 DEF FromCopies
  <2> QED
    BY <2>1, <2>2
<1> QED
  BY <1>1, <1>3 DEF IsRows

LEMMA ListAgentsKeeps ==
  ASSUME Listings, NEW r \in Requests, ListAgents(r)
  PROVE  Listings'
<1> USE DEF Listings
<1>1. /\ stage[r] = "listing" /\ stage' = [stage EXCEPT ![r] = "listed"]
      /\ left[r] = {}
      /\ UNCHANGED <<copies, left, summaries>>
  BY DEF ListAgents, HttpStep
<1>2. summaries[r] = [c \in CallerIDs |-> Summary(copies[r][c])]
  BY <1>1 DEF FromCopies, IsRows
<1>3. ASSUME NEW q \in Requests PROVE FromCopies(q)'
  BY <1>1, <1>2 DEF FromCopies
<1> QED
  BY <1>1, <1>3 DEF IsRows

LEMMA OtherRequestsKeep ==
  ASSUME Listings, NEW r \in Requests, ServeRoute(r) \/ NextRequest(r)
  PROVE  Listings'
<1> USE DEF Listings
<1>1. CASE ServeRoute(r)
  BY <1>1 DEF ServeRoute, HttpStep, FromCopies, IsRows
<1>2. CASE NextRequest(r)
  <2>1. /\ stage' = [stage EXCEPT ![r] = "idle"]
        /\ copies' = [copies EXCEPT ![r] = NoCopies]
        /\ summaries' = [summaries EXCEPT ![r] = NoRows]
        /\ UNCHANGED left
    BY <1>2 DEF NextRequest, HttpStep
  <2>2. IsRows(NoRows)
    BY DEF IsRows, NoRows
  <2>3. ASSUME NEW q \in Requests PROVE IsRows(summaries'[q]) /\ FromCopies(q)'
    BY <2>1, <2>2 DEF FromCopies
  <2> QED
    BY <2>1, <2>3
<1> QED
  BY <1>1, <1>2

LEMMA ListingsStep == Listings /\ [RequestsNext]_requestVars => Listings'
<1> SUFFICES ASSUME Listings, [RequestsNext]_requestVars PROVE Listings'
  OBVIOUS
<1>1. CASE UNCHANGED httpVars
  BY <1>1 DEF Listings, IsRows, FromCopies, httpVars
<1>2. CASE StreamsRun \/ Starts \/ Calls \/ UNCHANGED requestVars
  BY <1>1, <1>2, StartsLeave, CallsLeave DEF StreamsRun, requestVars
<1>3. ASSUME NEW r \in Requests, Http(r) PROVE Listings'
  BY <1>3, SummariseKeeps, ListEntriesKeeps, ListAgentsKeeps, OtherRequestsKeep
    DEF Http, Lists
<1> QED
  BY <1>2, <1>3, StepKinds

-----------------------------------------------------------------------------
(* Responses.                                                              *)

\* No level that can be configured hides an error.
LEMMA ErrorsAreLogged == \A cfg : Logs(cfg, "error")
<1>1. Rank("debug") = 1 /\ Rank("info") = 2 /\ Rank("warn") = 3 /\ Rank("error") = 4
  BY DEF Rank, Levels
<1>2. \A cfg : LogLevel(cfg) \in {"debug", "info", "warn", "error"}
  BY DEF LogLevel
<1> QED
  BY <1>1, <1>2 DEF Logs

LEMMA AnsweredTold ==
  ASSUME NEW r \in Requests, DOMAIN response = Requests,
         NEW route \in Routes, NEW w \in Handled(route), Answers(r, w)
  PROVE  /\ DOMAIN response' = Requests
         /\ IsTold(response'[r]) /\ response'[r].status \in Statuses
         /\ \A q \in Requests : q # r => response'[q] = response[q]
<1> DEFINE sent == Unwind(w)
           shown == {line \in sent.log : Logs(Config(env), line.level)}
           seen == [sent EXCEPT !.log = shown]
<1>1. /\ shown \in SUBSET sent.log
      /\ \A line \in sent.log : line.level = "error" => line \in shown
  BY ErrorsAreLogged
<1> HIDE DEF shown
<1>2. IsTold(seen) /\ seen.status \in Statuses
  BY <1>1, ChainAnswers
<1>3. response' = [response EXCEPT ![r] = seen]
  BY DEF Answers, shown
<1> HIDE DEF seen
<1> QED
  BY <1>2, <1>3

AllTold ==
  /\ DOMAIN stage = Requests /\ DOMAIN response = Requests
  /\ \A r \in Requests :
       /\ stage[r] \in {"idle", "listing", "listed", "answered"}
       /\ response[r].status \in Statuses
       /\ stage[r] \in {"listed", "answered"} => IsTold(response[r])

LEMMA AllToldInit == RequestsInit => AllTold
BY DEF RequestsInit, AllTold, NoResponse, Response, Statuses

\* The step of a request r leaves the other requests alone.
LEMMA AllToldByRequest ==
  ASSUME AllTold, NEW r \in Requests, Http(r)
  PROVE  AllTold'
<1> USE DEF AllTold, HttpStep
<1>1. CASE ServeRoute(r)
  <2>1. PICK route \in Routes : \E w \in Handled(route) : Answers(r, w)
    BY <1>1 DEF ServeRoute
  <2>2. stage' = [stage EXCEPT ![r] = "answered"]
    BY <1>1 DEF ServeRoute
  <2>3. IsTold(response'[r]) /\ response'[r].status \in Statuses
    BY <2>1, AnsweredTold
  <2> QED
    BY <2>1, <2>2, <2>3, AnsweredTold
<1>2. CASE ListAgents(r)
  <2>1. Answers(r, Wrote(200)) /\ Wrote(200) \in Handled("/metrics") /\ "/metrics" \in Routes
    BY <1>2 DEF ListAgents, Handled, metricsHandler, Routes
  <2>2. stage' = [stage EXCEPT ![r] = "listed"]
    BY <1>2 DEF ListAgents
  <2>3. IsTold(response'[r]) /\ response'[r].status \in Statuses
    BY <2>1, AnsweredTold
  <2> QED
    BY <2>1, <2>2, <2>3, AnsweredTold
<1>3. CASE ListEntries(r) \/ \E c \in CallerIDs : Summarise(r, c)
  BY <1>3 DEF ListEntries, Summarise
<1>4. CASE NextRequest(r)
  BY <1>4 DEF NextRequest, NoResponse, Response, Statuses
<1> QED
  BY <1>1, <1>2, <1>3, <1>4 DEF Http, Lists

LEMMA AllToldStep == AllTold /\ [RequestsNext]_requestVars => AllTold'
<1> SUFFICES ASSUME AllTold, [RequestsNext]_requestVars PROVE AllTold'
  OBVIOUS
<1>1. CASE UNCHANGED httpVars
  BY <1>1 DEF AllTold, httpVars
<1>2. CASE StreamsRun \/ Starts \/ Calls \/ UNCHANGED requestVars
  BY <1>1, <1>2, StartsLeave, CallsLeave DEF StreamsRun, requestVars
<1> QED
  BY <1>2, AllToldByRequest, StepKinds

\* FailuresAreTold holds in every reachable state, at every configured level.
THEOREM ClientsAreTold == RequestsSpec => []FailuresAreTold
<1>1. AllTold => FailuresAreTold
  BY DEF AllTold, FailuresAreTold
<1> QED
  BY <1>1, AllToldInit, AllToldStep, PTL DEF RequestsSpec

-----------------------------------------------------------------------------
(* The chain of interceptors, whatever is configured.                      *)

\* Metrics outermost, the interceptor that logs at info next, and behind them at most
\* one more, whose lines are not written.
LEMMA ChainShape ==
  /\ Len(Chain) \in {2, 3} /\ DOMAIN Chain = 1 .. Len(Chain)
  /\ Chain[1] = "metrics" /\ Chain[2] = "logging"
  /\ Len(Chain) = 3 => Chain[3] = "debug"
<1>1. CASE Config(env)["grpc.debug"] = "true"
  <2>1. Chain = <<"metrics">> \o <<"logging">> \o <<"debug">>
    BY <1>1 DEF Chain, Interceptors, MetricsInterceptors, BaseInterceptors, DebugInterceptors
  <2> QED
    BY <2>1
<1>2. CASE Config(env)["grpc.debug"] # "true"
  <2>1. Chain = <<"metrics">> \o <<"logging">> \o <<>>
    BY <1>2 DEF Chain, Interceptors, MetricsInterceptors, BaseInterceptors
  <2> QED
    BY <2>1
<1> QED
  BY <1>1, <1>2

LEMMA LinesWritten == LineWritten("logging") /\ ~ LineWritten("debug")
<1>1. Rank("info") = 2 /\ Rank("debug") = 1
  BY DEF Rank, Levels
<1>2. LineLevel("logging") = "info" /\ LineLevel("debug") = "debug"
  BY DEF LineLevel
<1> QED
  BY <1>1, <1>2 DEF LineWritten

-----------------------------------------------------------------------------
(* Types.                                                                  *)

\* An entry once made stays, with a stream or without.
LEMMA EntriesStay ==
  ASSUME TypeOK, CallerKnown, [Next]_vars, NEW c \in CallerIDs
  PROVE  agents'[c].stream \in Streams \/ (agents'[c] = Absent <=> agents[c] = Absent)
<1> USE DEF TypeOK, RegistryTypeOK
<1>1. CASE UNCHANGED registryVars
  BY <1>1 DEF registryVars
<1>2. CASE MonitorTick \/ ClockTick
  BY <1>2 DEF MonitorTick, ClockTick, ExpireStale, Tick, Stale, Dropped, Older, Agent,
    Absent, Disconnected
<1>3. ASSUME NEW s \in Streams, NEW d \in CallerIDs,
             Register(d, s) \/ ForceRegister(d, s) \/ Deregister(d) \/ TouchHeartbeat(d)
      PROVE  agents'[c].stream \in Streams \/ (agents'[c] = Absent <=> agents[c] = Absent)
  <2>1. CASE Register(d, s) \/ ForceRegister(d, s)
    BY <2>1 DEF Register, ForceRegister, Enter, Fresh
  <2>2. CASE Deregister(d)
    BY <2>2 DEF Deregister, Dropped, Absent, Disconnected
  <2>3. CASE TouchHeartbeat(d)
    BY <2>3 DEF TouchHeartbeat, Agent, Absent, Disconnected
  <2> QED
    BY <1>3, <2>1, <2>2, <2>3
<1> QED
  BY <1>1, <1>2, <1>3, OneMethod DEF Next, vars, registryVars

RequestsTyped ==
  /\ Ownership /\ AllTold
  /\ DOMAIN left = Requests
  /\ RequestsTypeOK

LEMMA RequestsTypedInit == RequestsInit => RequestsTyped
<1> SUFFICES ASSUME RequestsInit PROVE RequestsTyped
  OBVIOUS
<1>1. Ownership /\ AllTold
  BY OwnershipInit, AllToldInit DEF RequestsInit
<1>2. returned \in [Rpcs -> 0 .. Len(Chain)]
  BY ChainShape DEF RequestsInit
<1> QED
  BY <1>1, <1>2 DEF RequestsInit, RequestsTyped, RequestsTypeOK, Ownership, Init, New, AllTold

\* What belongs to the RPCs keeps its types.
LEMMA CallsTyped ==
  ASSUME RequestsTyped, Calls
  PROVE  /\ answer' \in [Checks -> {"none", "OK", "NotFound"}]
         /\ returned' \in [Rpcs -> 0 .. Len(Chain)]
         /\ told' \in [Rpcs -> Codes \cup {"none"}]
<1> USE DEF RequestsTyped, RequestsTypeOK
<1>1. ASSUME NEW h \in Checks, CheckAnswers(h)
      PROVE  /\ answer' \in [Checks -> {"none", "OK", "NotFound"}]
             /\ UNCHANGED <<returned, told>>
  BY <1>1 DEF CheckAnswers
<1>2. ASSUME NEW x \in Rpcs, NEW interceptor, ReturnsThrough(x, interceptor)
      PROVE  returned' \in [Rpcs -> 0 .. Len(Chain)] /\ UNCHANGED <<answer, told>>
  BY <1>2, ChainShape DEF ReturnsThrough
<1>3. ASSUME NEW x \in Rpcs, Tells(x)
      PROVE  told' \in [Rpcs -> Codes \cup {"none"}] /\ UNCHANGED <<answer, returned>>
  <2>1. Result(x) \in Codes \cup {"none"}
    BY DEF Result, Rpcs, Codes, TypeOK
  <2> QED
    BY <1>3, <2>1 DEF Tells
<1> QED
  BY <1>1, <1>2, <1>3 DEF Calls, Returns, Meters, LogsCall

LEMMA RequestsTypedStep == RequestsTyped /\ [RequestsNext]_requestVars => RequestsTyped'
<1> SUFFICES ASSUME RequestsTyped, [RequestsNext]_requestVars PROVE RequestsTyped'
  OBVIOUS
<1>1. Ownership' /\ AllTold' /\ TypeOK' /\ TypeOK /\ CallerKnown
  BY StreamsRefined, OwnershipStep, AllToldStep DEF RequestsTyped, Ownership
<1> USE DEF RequestsTyped, RequestsTypeOK
<1>2. CASE Starts
  <2>1. gateway' \in {"building", "serving", "exited", "crashed"}
    BY <1>2 DEF Starts, Construct, ConstructFails, TickerPanics, Process
  <2>2. UNCHANGED <<agents, lastHello, env, answer, returned, told, left, stage, response>>
    BY <1>2, StartsLeave DEF vars, rpcVars, httpVars
  <2> QED
    BY <1>1, <2>1, <2>2 DEF Chain
<1>3. CASE StreamsRun
  <2>1. UNCHANGED <<gateway, env, answer, returned, told, left, stage, response>>
        /\ HelloIsKept
    BY <1>3 DEF StreamsRun, processVars, rpcVars, httpVars
  <2>2. ASSUME NEW c \in CallerIDs
        PROVE  IF agents'[c] = Absent THEN lastHello'[c] = NoStream
                                      ELSE lastHello'[c] \in Streams
    <3>1. agents'[c].stream \in Streams => agents'[c] # Absent
      BY DEF Absent
    <3>2. agents'[c].stream \in Streams \/ (agents'[c] = Absent <=> agents[c] = Absent)
      BY <1>1, EntriesStay, StreamsRefined
    <3> QED
      BY <2>1, <3>1, <3>2 DEF HelloIsKept
  <2> QED
    BY <1>1, <2>1, <2>2 DEF Chain
<1>4. CASE Calls
  <2>1. UNCHANGED <<agents, lastHello, gateway, env, left, stage, response>>
    BY <1>4, CallsLeave DEF vars, registryVars, processVars, httpVars
  <2> QED
    BY <1>1, <1>4, <2>1, CallsTyped DEF Chain
<1>5. ASSUME NEW r \in Requests, Http(r) PROVE RequestsTyped'
  <2>1. UNCHANGED <<agents, lastHello, gateway, env, answer, returned, told>>
    BY <1>5, HttpLeaves DEF vars, processVars, rpcVars
  <2>2. DOMAIN left' = Requests /\ \A q \in Requests : left'[q] \subseteq CallerIDs
    BY <1>5 DEF Http, Lists, ServeRoute, ListEntries, Summarise, ListAgents, NextRequest
  <2> QED
    BY <1>1, <2>1, <2>2 DEF AllTold, Chain
<1>6. CASE UNCHANGED requestVars
  BY <1>1, <1>6 DEF requestVars, vars, processVars, rpcVars, httpVars, Chain
<1> QED
  BY <1>2, <1>3, <1>4, <1>5, <1>6, StepKinds

\* The types, and the metadata of an entry belong to a stream that registered it.
THEOREM RequestsTypeCorrect == RequestsSpec => []RequestsTypeOK
<1>1. RequestsTyped => RequestsTypeOK
  BY DEF RequestsTyped
<1> QED
  BY <1>1, RequestsTypedInit, RequestsTypedStep, PTL DEF RequestsSpec

-----------------------------------------------------------------------------
(* The gauge and the RPCs in flight.                                       *)

\* Nobody returns through an interceptor whose handler has not returned.
InChain == RequestsTyped /\ \A x \in Rpcs : returned[x] > 0 => HandlerOver(x)

LEMMA InChainInit == RequestsInit => InChain
BY RequestsTypedInit DEF RequestsInit, InChain

\* A handler that has returned keeps the code it returned.
LEMMA CodeKept ==
  ASSUME TypeOK, NEW s \in Streams, StreamStep(s), NEW t \in Streams, pc[t] = "ended"
  PROVE  code'[t] = code[t]
<1> USE DEF TypeOK, Return, handlerVars
<1>1. CASE RegisterFree(s) \/ RegisterByForce(s)
  BY <1>1 DEF RegisterFree, RegisterByForce, EnterLoop
<1>2. CASE RegisterTaken(s) \/ TakeEvict(s) \/ Leave(s) \/ RefuseFirst(s)
  BY <1>2 DEF RegisterTaken, TakeEvict, Leave, RefuseFirst
<1>3. CASE TakeHeartbeat(s) \/ TakeOther(s) \/ TakeEnd(s)
  BY <1>3 DEF TakeHeartbeat, TakeOther, TakeEnd, FromReader
<1>4. ASSUME NEW c \in CallerIDs, AcceptHello(s, c) PROVE code'[t] = code[t]
  BY <1>4 DEF AcceptHello
<1>5. CASE ReceiveFrame(s) \/ GoSilent(s) \/ LinkEnds(s) \/ Reader(s)
  BY <1>5 DEF ReceiveFrame, GoSilent, LinkEnds, LinkChanges, Reader, ReceiveEnd, Received,
    Offer, Quit
<1> QED
  BY <1>1, <1>2, <1>3, <1>4, <1>5 DEF StreamStep, Handler, Client

\* No step takes back what a handler has returned.
LEMMA OverStays ==
  ASSUME RequestsTyped, [RequestsNext]_requestVars, NEW x \in Rpcs, HandlerOver(x)
  PROVE  HandlerOver(x)' /\ Result(x)' = Result(x)
<1> USE DEF HandlerOver, Result
<1>1. TypeOK
  BY DEF RequestsTyped, Ownership
<1>2. CASE UNCHANGED <<pc, code, answer>>
  BY <1>2
<1>3. CASE StreamsRun
  <2>1. UNCHANGED answer
    BY <1>3 DEF StreamsRun, rpcVars
  <2>2. CASE x \in Checks
    BY <2>1, <2>2
  <2>3. CASE x \notin Checks
    <3>1. x \in Streams /\ pc[x] = "ended"
      BY <2>3 DEF Rpcs
    <3>2. ASSUME NEW s \in Streams, StreamStep(s) PROVE pc'[x] = pc[x] /\ code'[x] = code[x]
      BY <1>1, <3>1, <3>2, OnlyItsOwnPc, CodeKept
    <3>3. ASSUME MonitorTick \/ ClockTick PROVE pc'[x] = pc[x] /\ code'[x] = code[x]
      BY <3>3 DEF MonitorTick, ClockTick, handlerVars
    <3>4. MonitorTick \/ ClockTick \/ \E s \in Streams : StreamStep(s)
      BY <1>3 DEF StreamsRun
    <3>5. pc'[x] = pc[x] /\ code'[x] = code[x]
      <4>1. CASE MonitorTick \/ ClockTick
        BY <3>3, <4>1
      <4>2. CASE \E s \in Streams : StreamStep(s)
        BY <3>2, <4>2
      <4> QED
        BY <3>4, <4>1, <4>2
    <3> QED
      BY <2>3, <3>1, <3>5
  <2> QED
    BY <2>2, <2>3
<1>4. CASE Calls
  <2>1. UNCHANGED <<pc, code>>
    BY <1>4, CallsLeave DEF vars
  <2>2. x \in Checks => answer'[x] = answer[x]
    BY <1>4 DEF Calls, CheckAnswers, Returns, Meters, LogsCall, Tells, ReturnsThrough,
      RequestsTyped, RequestsTypeOK
  <2> QED
    BY <2>1, <2>2
<1>5. CASE Starts \/ (\E r \in Requests : Http(r)) \/ UNCHANGED requestVars
  BY <1>2, <1>5, StartsLeave, HttpLeaves DEF vars, rpcVars, requestVars
<1> QED
  BY <1>3, <1>4, <1>5, StepKinds

LEMMA InChainStep == InChain /\ [RequestsNext]_requestVars => InChain'
<1> SUFFICES ASSUME InChain, [RequestsNext]_requestVars PROVE InChain'
  OBVIOUS
<1>1. RequestsTyped' /\ RequestsTyped
  BY RequestsTypedStep DEF InChain
<1>2. ASSUME NEW x \in Rpcs, returned'[x] > 0 PROVE HandlerOver(x)
  <2>1. CASE returned'[x] = returned[x]
    BY <1>2, <2>1 DEF InChain
  <2>2. CASE returned'[x] # returned[x]
    <3>1. Calls
      BY <2>2, StepKinds, StartsLeave, HttpLeaves DEF StreamsRun, rpcVars, requestVars
    <3>2. PICK y \in Rpcs : \E interceptor : ReturnsThrough(y, interceptor)
      BY <2>2, <3>1 DEF Calls, CheckAnswers, Returns, Meters, LogsCall, Tells
    <3>3. HandlerOver(y) /\ returned' = [returned EXCEPT ![y] = @ + 1]
      BY <3>2 DEF ReturnsThrough
    <3> QED
      BY <1>1, <2>2, <3>3 DEF RequestsTyped, RequestsTypeOK
  <2> QED
    BY <2>1, <2>2
<1> QED
  BY <1>1, <1>2, OverStays DEF InChain

\* Connected callers have streams of their own, whose handlers have not returned.
LEMMA GaugeBound ==
  ASSUME InChain, IsFiniteSet(Streams)
  PROVE  GaugeWithinInFlight
<1> DEFINE Up == {c \in CallerIDs : Connected(c)}
           InFlight == {s \in Streams : ~ Passed(s, "metrics")}
           StreamOf == [c \in Up |-> agents[c].stream]
<1>1. ASSUME NEW s \in Streams, Live(s) PROVE s \in InFlight
  <2>1. s \in Rpcs /\ ~ HandlerOver(s)
    BY <1>1 DEF Rpcs, HandlerOver, Live
  <2>2. returned[s] \in 0 .. Len(Chain) /\ ~ returned[s] > 0
    BY <2>1 DEF InChain, RequestsTyped, RequestsTypeOK
  <2>3. ~ Passed(s, "metrics")
    BY <2>2, ChainShape DEF Passed
  <2> QED
    BY <2>3
<1>2. \A c \in Up : agents[c].stream \in InFlight /\ caller[agents[c].stream] = c
  <2>1. \A c \in Up : /\ agents[c].stream \in Streams /\ Live(agents[c].stream)
                      /\ caller[agents[c].stream] = c
    BY DEF InChain, RequestsTyped, Ownership, RegistryServesLiveStreams
  <2> QED
    BY <1>1, <2>1
<1> HIDE DEF InFlight
<1>3. StreamOf \in Injection(Up, InFlight)
  <2>1. StreamOf \in [Up -> InFlight]
    BY <1>2
  <2>2. \A a, b \in Up : agents[a].stream = agents[b].stream => a = b
    BY <1>2
  <2>3. IsInjective(StreamOf)
    BY <2>1, <2>2 DEF IsInjective
  <2> QED
    BY <2>1, <2>3 DEF Injection
<1>4. IsFiniteSet(InFlight)
  BY FS_Subset DEF InFlight
<1>5. Cardinality(Up) <= Cardinality(InFlight)
  BY <1>3, <1>4, FS_Injection
<1> QED
  BY <1>5 DEF GaugeWithinInFlight, ConnectedCount, InFlight

\* GaugeWithinInFlight holds in every reachable state, of finitely many streams.
THEOREM GaugeIsBounded ==
  ASSUME IsFiniteSet(Streams)
  PROVE  RequestsSpec => []GaugeWithinInFlight
BY InChainInit, InChainStep, GaugeBound, PTL DEF RequestsSpec

-----------------------------------------------------------------------------
(* Metrics and log lines.                                                  *)

\* The RPCs that have returned through k interceptors, by method and code.
Beyond(k, method, result) ==
  {x \in Rpcs : returned[x] >= k /\ Method(x) = method /\ Result(x) = result}

\* The counter is the last interceptor to return, the line is written by the one before
\* it; a client has been told the code its handler returned.
Accounts ==
  /\ InChain
  /\ total \in [Methods -> [Codes -> Nat]] /\ lines \in [Methods -> [Codes -> Nat]]
  /\ \A method \in Methods, result \in Codes :
       /\ total[method][result] = Cardinality(Beyond(Len(Chain), method, result))
       /\ lines[method][result] = Cardinality(Beyond(Len(Chain) - 1, method, result))
  /\ \A x \in Rpcs :
       told[x] # "none" => returned[x] = Len(Chain) /\ told[x] = Result(x)

LEMMA AccountsInit == RequestsInit => Accounts
<1> SUFFICES ASSUME RequestsInit PROVE Accounts
  OBVIOUS
<1>1. total = [m \in Methods |-> [code_ \in Codes |-> 0]] /\ lines = total
  BY DEF RequestsInit
<1>2. \A k \in Nat \ {0} : \A method, result : Beyond(k, method, result) = {}
  BY DEF RequestsInit, Beyond
<1>3. Len(Chain) \in Nat \ {0} /\ Len(Chain) - 1 \in Nat \ {0}
  BY ChainShape
<1>4. \A x \in Rpcs : told[x] = "none"
  BY DEF RequestsInit
<1>5. \A method, result :
        /\ Cardinality(Beyond(Len(Chain), method, result)) = 0
        /\ Cardinality(Beyond(Len(Chain) - 1, method, result)) = 0
  BY <1>2, <1>3, FS_EmptySet
<1> QED
  BY <1>1, <1>4, <1>5, InChainInit DEF Accounts

\* Where no call moves, nothing is told, counted or logged.
LEMMA AccountsStand ==
  ASSUME Accounts, [RequestsNext]_requestVars, UNCHANGED <<env, returned, told, total, lines>>
  PROVE  Accounts'
<1>1. InChain' /\ InChain /\ RequestsTyped
  BY InChainStep DEF Accounts, InChain
<1>2. Chain' = Chain
  BY DEF Chain
<1>3. ASSUME NEW k \in Nat \ {0}, NEW method, NEW result
      PROVE  Beyond(k, method, result)' = Beyond(k, method, result)
  <2>1. ASSUME NEW x \in Rpcs, returned[x] >= k PROVE Result(x)' = Result(x)
    <3>1. returned[x] > 0
      BY <1>1, <2>1 DEF RequestsTyped, RequestsTypeOK
    <3> QED
      BY <1>1, <3>1, OverStays DEF InChain
  <2> QED
    BY <2>1 DEF Beyond, Method
<1>4. Len(Chain) \in Nat \ {0} /\ Len(Chain) - 1 \in Nat \ {0}
  BY ChainShape
<1>5. \A x \in Rpcs : told'[x] # "none" => returned'[x] = Len(Chain) /\ told'[x] = Result(x)'
  <2>1. \A x \in Rpcs : returned[x] = Len(Chain) => Result(x)' = Result(x)
    BY <1>1, <1>4, OverStays DEF InChain
  <2> QED
    BY <2>1 DEF Accounts
<1>6. \A method \in Methods, result \in Codes :
        /\ total'[method][result] = Cardinality(Beyond(Len(Chain), method, result)')
        /\ lines'[method][result] = Cardinality(Beyond(Len(Chain) - 1, method, result)')
  <2>1. \A method, result :
          /\ Beyond(Len(Chain), method, result)' = Beyond(Len(Chain), method, result)
          /\ Beyond(Len(Chain) - 1, method, result)' = Beyond(Len(Chain) - 1, method, result)
    BY <1>2, <1>3, <1>4
  <2> QED
    BY <2>1 DEF Accounts
<1> QED
  BY <1>1, <1>2, <1>5, <1>6 DEF Accounts, Beyond

\* One more in a counter, and none more in the others.
Plus(f, m, r) == [f EXCEPT ![m][r] = @ + 1]

LEMMA OneMore ==
  ASSUME NEW f, f \in [Methods -> [Codes -> Nat]], NEW m, m \in Methods, NEW r
  PROVE  /\ Plus(f, m, r) \in [Methods -> [Codes -> Nat]]
         /\ \A method \in Methods, result \in Codes :
              Plus(f, m, r)[method][result] =
                IF method = m /\ result = r THEN f[method][result] + 1 ELSE f[method][result]
<1> DEFINE row == [f[m] EXCEPT ![r] = @ + 1]
<1>1. f[m] \in [Codes -> Nat]
  OBVIOUS
<1>2. row \in [Codes -> Nat]
  <2>1. CASE r \in Codes
    BY <1>1, <2>1
  <2>2. CASE r \notin Codes
    BY <1>1, <2>2
  <2> QED
    BY <2>1, <2>2
<1>3. \A result \in Codes :
        row[result] = IF result = r THEN f[m][result] + 1 ELSE f[m][result]
  BY <1>1
<1>4. Plus(f, m, r) = [f EXCEPT ![m] = row]
  BY DEF Plus
<1> HIDE DEF row
<1> QED
  BY <1>2, <1>3, <1>4

\* One more RPC beyond the k-th interceptor, and no more beyond the others.
LEMMA OneBeyond ==
  ASSUME RequestsTyped, IsFiniteSet(Rpcs), NEW x \in Rpcs, UNCHANGED <<answer, code>>,
         returned' = [returned EXCEPT ![x] = @ + 1]
  PROVE  \A k \in Nat : \A method, result :
           Cardinality(Beyond(k, method, result)') =
             IF returned[x] + 1 = k /\ Method(x) = method /\ Result(x) = result
             THEN Cardinality(Beyond(k, method, result)) + 1
             ELSE Cardinality(Beyond(k, method, result))
<1> TAKE k \in Nat
<1> TAKE method, result
<1> DEFINE before == Beyond(k, method, result)
           after == Beyond(k, method, result)'
<1>1. \A y \in Rpcs : returned[y] \in Nat
  BY ChainShape DEF RequestsTyped, RequestsTypeOK
<1>2. \A y \in Rpcs : returned'[y] = IF y = x THEN returned[x] + 1 ELSE returned[y]
  BY DEF RequestsTyped, RequestsTypeOK
<1>3. \A y \in Rpcs : Method(y)' = Method(y) /\ Result(y)' = Result(y)
  BY DEF Method, Result
<1>4. before = {y \in Rpcs : returned[y] >= k /\ Method(y) = method /\ Result(y) = result}
  BY DEF Beyond
<1>5. after = {y \in Rpcs : returned'[y] >= k /\ Method(y) = method /\ Result(y) = result}
  BY <1>3 DEF Beyond
<1>6. IsFiniteSet(before)
  BY <1>4, FS_Subset
<1> HIDE DEF before, after
<1>7. CASE returned[x] + 1 = k /\ Method(x) = method /\ Result(x) = result
  <2>1. x \notin before
    BY <1>1, <1>4, <1>7
  <2>2. after = before \cup {x}
    BY <1>1, <1>2, <1>4, <1>5, <1>7
  <2>3. Cardinality(after) = Cardinality(before) + 1
    BY <1>6, <2>1, <2>2, FS_AddElement
  <2> QED
    BY <1>7, <2>3 DEF before, after
<1>8. CASE ~ (returned[x] + 1 = k /\ Method(x) = method /\ Result(x) = result)
  <2>1. after = before
    BY <1>1, <1>2, <1>4, <1>5, <1>8
  <2> QED
    BY <1>8, <2>1 DEF before, after
<1> QED
  BY <1>7, <1>8

\* Where in the chain an interceptor is.
LEMMA PlaceInChain ==
  ASSUME RequestsTyped, NEW x \in Rpcs, NEW interceptor, ReturnsThrough(x, interceptor)
  PROVE  /\ returned[x] \in Nat
         /\ interceptor = "metrics" => returned[x] + 1 = Len(Chain)
         /\ interceptor = "logging" => returned[x] + 1 = Len(Chain) - 1
         /\ interceptor = "debug" => returned[x] + 1 = Len(Chain) - 2
<1>1. /\ returned[x] < Len(Chain) /\ Chain[Len(Chain) - returned[x]] = interceptor
      /\ returned[x] \in 0 .. Len(Chain)
  BY DEF ReturnsThrough, RequestsTyped, RequestsTypeOK
<1>2. CASE Len(Chain) = 2
  <2>1. returned[x] \in {0, 1}
    BY <1>1, <1>2
  <2> QED
    BY <1>1, <1>2, <2>1, ChainShape
<1>3. CASE Len(Chain) = 3
  <2>1. returned[x] \in {0, 1, 2}
    BY <1>1, <1>3
  <2> QED
    BY <1>1, <1>3, <2>1, ChainShape
<1> QED
  BY <1>2, <1>3, ChainShape

\* The counter or the line of one interceptor keeps the books straight.
LEMMA Booked ==
  ASSUME Accounts, IsFiniteSet(Rpcs), NEW x \in Rpcs,
         Meters(x) \/ LogsCall(x, "logging") \/ LogsCall(x, "debug")
  PROVE  Accounts'
<1>1. InChain' /\ RequestsTyped /\ Method(x) \in Methods
  <2>1. [RequestsNext]_requestVars
    BY DEF RequestsNext, Serves, Returns
  <2> QED
    BY <2>1, InChainStep DEF Accounts, InChain, Method, Methods
<1>2. PICK interceptor \in {"metrics", "logging", "debug"} : ReturnsThrough(x, interceptor)
  BY DEF Meters, LogsCall
<1>3. /\ returned' = [returned EXCEPT ![x] = @ + 1] /\ returned[x] < Len(Chain)
      /\ UNCHANGED <<answer, code, env, told>>
  BY <1>2 DEF ReturnsThrough, vars, processVars
<1>4. PICK n \in Nat : n = Len(Chain) /\ n - 1 \in Nat /\ Chain' = Chain
  <2>1. Chain' = Chain
    BY <1>3 DEF Chain
  <2>2. Len(Chain) \in Nat /\ Len(Chain) - 1 \in Nat
    BY ChainShape
  <2> QED
    BY <2>1, <2>2
<1>5. \A k \in Nat : \A method, result :
        Cardinality(Beyond(k, method, result)') =
          IF returned[x] + 1 = k /\ Method(x) = method /\ Result(x) = result
          THEN Cardinality(Beyond(k, method, result)) + 1
          ELSE Cardinality(Beyond(k, method, result))
  <2>1. UNCHANGED <<answer, code>>
    BY <1>3
  <2>2. returned' = [returned EXCEPT ![x] = @ + 1]
    BY <1>3
  <2> QED
    BY <1>1, <2>1, <2>2, OneBeyond
<1>6. /\ total \in [Methods -> [Codes -> Nat]] /\ lines \in [Methods -> [Codes -> Nat]]
      /\ \A method \in Methods, result \in Codes :
           /\ total[method][result] = Cardinality(Beyond(n, method, result))
           /\ lines[method][result] = Cardinality(Beyond(n - 1, method, result))
  BY <1>4 DEF Accounts
<1>7. \A y \in Rpcs :
        told'[y] # "none" => returned'[y] = Len(Chain)' /\ told'[y] = Result(y)'
  <2>1. \A y \in Rpcs : told[y] # "none" => y # x /\ returned[y] = n
                                          /\ told[y] = Result(y)
    BY <1>3, <1>4 DEF Accounts
  <2>2. \A y \in Rpcs : y # x => returned'[y] = returned[y]
    BY <1>1, <1>3 DEF RequestsTyped, RequestsTypeOK
  <2> QED
    BY <1>3, <1>4, <2>1, <2>2 DEF Result
<1> DEFINE Kept == \A method \in Methods, result \in Codes :
             /\ total'[method][result] = Cardinality(Beyond(n, method, result)')
             /\ lines'[method][result] = Cardinality(Beyond(n - 1, method, result)')
<1>8. /\ total' \in [Methods -> [Codes -> Nat]] /\ lines' \in [Methods -> [Codes -> Nat]]
      /\ Kept
  <2>1. CASE Meters(x)
    <3>1. total' = Plus(total, Method(x), Result(x)) /\ lines' = lines
      BY <2>1 DEF Meters, Plus
    <3>2. returned[x] + 1 = n /\ returned[x] + 1 # n - 1
      BY <1>1, <1>4, <2>1, PlaceInChain DEF Meters
    <3>3. /\ Plus(total, Method(x), Result(x)) \in [Methods -> [Codes -> Nat]]
          /\ \A method \in Methods, result \in Codes :
               Plus(total, Method(x), Result(x))[method][result] =
                 IF method = Method(x) /\ result = Result(x) THEN total[method][result] + 1
                 ELSE total[method][result]
      <4>1. Method(x) \in Methods
        BY <1>1
      <4>2. total \in [Methods -> [Codes -> Nat]]
        BY <1>6
      <4> QED
        BY ONLY <4>1, <4>2, OneMore
    <3>4. \A method, result :
            /\ Cardinality(Beyond(n, method, result)') =
                 IF Method(x) = method /\ Result(x) = result
                 THEN Cardinality(Beyond(n, method, result)) + 1
                 ELSE Cardinality(Beyond(n, method, result))
            /\ Cardinality(Beyond(n - 1, method, result)') =
                 Cardinality(Beyond(n - 1, method, result))
      BY <1>4, <1>5, <3>2
    <3> QED
      BY <1>6, <3>1, <3>3, <3>4
  <2>2. CASE LogsCall(x, "logging")
    <3>1. lines' = Plus(lines, Method(x), Result(x)) /\ total' = total
      BY <2>2, LinesWritten DEF LogsCall, Plus
    <3>2. returned[x] + 1 = n - 1 /\ returned[x] + 1 # n
      BY <1>1, <1>4, <2>2, PlaceInChain DEF LogsCall
    <3>3. /\ Plus(lines, Method(x), Result(x)) \in [Methods -> [Codes -> Nat]]
          /\ \A method \in Methods, result \in Codes :
               Plus(lines, Method(x), Result(x))[method][result] =
                 IF method = Method(x) /\ result = Result(x) THEN lines[method][result] + 1
                 ELSE lines[method][result]
      <4>1. Method(x) \in Methods
        BY <1>1
      <4>2. lines \in [Methods -> [Codes -> Nat]]
        BY <1>6
      <4> QED
        BY ONLY <4>1, <4>2, OneMore
    <3>4. \A method, result :
            /\ Cardinality(Beyond(n - 1, method, result)') =
                 IF Method(x) = method /\ Result(x) = result
                 THEN Cardinality(Beyond(n - 1, method, result)) + 1
                 ELSE Cardinality(Beyond(n - 1, method, result))
            /\ Cardinality(Beyond(n, method, result)') =
                 Cardinality(Beyond(n, method, result))
      BY <1>4, <1>5, <3>2
    <3> QED
      BY <1>6, <3>1, <3>3, <3>4
  <2>3. CASE LogsCall(x, "debug")
    <3>1. UNCHANGED <<total, lines>>
      BY <2>3, LinesWritten DEF LogsCall
    <3>2. returned[x] + 1 # n - 1 /\ returned[x] + 1 # n
      BY <1>1, <1>4, <2>3, PlaceInChain DEF LogsCall
    <3>3. \A method, result :
            /\ Cardinality(Beyond(n, method, result)') = Cardinality(Beyond(n, method, result))
            /\ Cardinality(Beyond(n - 1, method, result)') =
                 Cardinality(Beyond(n - 1, method, result))
      BY <1>4, <1>5, <3>2
    <3> QED
      BY <1>6, <3>1, <3>3
  <2> QED
    BY <2>1, <2>2, <2>3
<1>9. \A method, result :
        /\ Beyond(Len(Chain), method, result)' = Beyond(n, method, result)'
        /\ Beyond(Len(Chain) - 1, method, result)' = Beyond(n - 1, method, result)'
  BY <1>4 DEF Beyond
<1> QED
  BY <1>1, <1>7, <1>8, <1>9 DEF Accounts

LEMMA ToldAsBooked ==
  ASSUME Accounts, NEW x \in Rpcs, Tells(x)
  PROVE  Accounts'
<1>1. InChain' /\ RequestsTyped
  <2>1. [RequestsNext]_requestVars
    BY DEF RequestsNext, Serves, Returns
  <2> QED
    BY <2>1, InChainStep DEF Accounts, InChain
<1>2. /\ returned[x] = Len(Chain) /\ told' = [told EXCEPT ![x] = Result(x)]
      /\ UNCHANGED <<env, code, answer, returned, total, lines>>
  BY DEF Tells, vars, processVars
<1>3. Chain' = Chain /\ \A y \in Rpcs : Result(y)' = Result(y)
  BY <1>2 DEF Chain, Result
<1>4. \A y \in Rpcs : told'[y] # "none" => returned'[y] = Len(Chain)' /\ told'[y] = Result(y)'
  BY <1>1, <1>2, <1>3 DEF Accounts, RequestsTyped, RequestsTypeOK
<1>5. \A k, method, result : Beyond(k, method, result)' = Beyond(k, method, result)
  BY <1>2, <1>3 DEF Beyond, Method
<1> QED
  BY <1>1, <1>2, <1>3, <1>4, <1>5 DEF Accounts

LEMMA AccountsStep ==
  ASSUME IsFiniteSet(Rpcs)
  PROVE  Accounts /\ [RequestsNext]_requestVars => Accounts'
<1> SUFFICES ASSUME Accounts, [RequestsNext]_requestVars PROVE Accounts'
  OBVIOUS
<1>1. CASE UNCHANGED <<env, returned, told, total, lines>>
  BY <1>1, AccountsStand
<1>2. CASE StreamsRun \/ Starts \/ (\E r \in Requests : Http(r)) \/ UNCHANGED requestVars
  BY <1>1, <1>2, StartsLeave, HttpLeaves DEF StreamsRun, processVars, rpcVars, requestVars
<1>3. ASSUME NEW h \in Checks, CheckAnswers(h) PROVE Accounts'
  BY <1>1, <1>3 DEF CheckAnswers, processVars
<1>4. ASSUME NEW x \in Rpcs, Returns(x) PROVE Accounts'
  BY <1>4, Booked, ToldAsBooked DEF Returns
<1> QED
  BY <1>2, <1>3, <1>4, StepKinds DEF Calls

LEMMA BookedIsAccounted ==
  ASSUME Accounts, IsFiniteSet(Rpcs)
  PROVE  AccountsForRpcs
<1> SUFFICES ASSUME NEW method \in Methods, NEW result \in Codes
             PROVE  /\ Cardinality(Told(method, result)) <= total[method][result]
                    /\ total[method][result] <= lines[method][result]
                    /\ lines[method][result] <= Cardinality(Returned(method, result))
  BY DEF AccountsForRpcs
<1> DEFINE counted == Beyond(Len(Chain), method, result)
           logged == Beyond(Len(Chain) - 1, method, result)
<1>1. result # "none"
  BY DEF Codes
<1>2. \A x \in Rpcs : returned[x] \in 0 .. Len(Chain)
  BY DEF Accounts, InChain, RequestsTyped, RequestsTypeOK
<1>3. Told(method, result) \subseteq counted
  BY <1>1, <1>2, ChainShape DEF Told, Beyond, Accounts
<1>4. counted \subseteq logged
  BY <1>2, ChainShape DEF Beyond
<1>5. logged \subseteq Returned(method, result)
  BY <1>2, ChainShape DEF Beyond, Returned, Accounts, InChain
<1>6. IsFiniteSet(Returned(method, result))
  BY FS_Subset DEF Returned
<1>7. total[method][result] = Cardinality(counted) /\ lines[method][result] = Cardinality(logged)
  BY DEF Accounts
<1> HIDE DEF counted, logged
<1>8. IsFiniteSet(logged) /\ Cardinality(logged) <= Cardinality(Returned(method, result))
  BY <1>5, <1>6, FS_Subset
<1>9. IsFiniteSet(counted) /\ Cardinality(counted) <= Cardinality(logged)
  BY <1>4, <1>8, FS_Subset
<1>10. Cardinality(Told(method, result)) <= Cardinality(counted)
  BY <1>3, <1>9, FS_Subset
<1> QED
  BY <1>7, <1>8, <1>9, <1>10

\* AccountsForRpcs holds in every reachable state, of every configuration and of finitely
\* many RPCs of either method.
THEOREM RpcsAreAccountedFor ==
  ASSUME IsFiniteSet(Streams), IsFiniteSet(Checks)
  PROVE  RequestsSpec => []AccountsForRpcs
<1>1. IsFiniteSet(Rpcs)
  BY FS_Union DEF Rpcs
<1> QED
  BY <1>1, AccountsInit, AccountsStep, BookedIsAccounted, PTL DEF RequestsSpec

-----------------------------------------------------------------------------
(* A listing happens in one step.                                          *)

\* A caller_id that a list could show stays in every later one.
LEMMA NoneForgotten ==
  ASSUME TypeOK, TypeOK', CallerKnown, [Next]_vars, NEW c \in CallerIDs, View[c] # NoRow
  PROVE  View'[c] # NoRow
<1> USE DEF TypeOK, RegistryTypeOK, Agent, Absent, Disconnected
<1>1. agents[c].status # "absent"
  BY DEF View, Summary, Copy
<1>2. agents'[c].stream \in Streams \/ agents'[c] # Absent
  BY <1>1, EntriesStay
<1>3. agents'[c].status # "absent"
  BY <1>2
<1> QED
  BY <1>3 DEF View, Summary, Copy, NoRow

\* No row changes but by the steps of handlers, monitor and clock.
LEMMA ShownStands == UNCHANGED <<agents, lastHello>> => View' = View
BY DEF View, Copy

LEMMA ListingStep ==
  ASSUME RequestsTyped, RequestsTyped', Listings, Listings', [RequestsNext]_requestVars
  PROVE  [Listing!ListingNext]_(Listing!listingVars)
<1> USE DEF Listing!ListingNext, Listing!listingVars
<1>1. CASE StreamsRun
  <2>1. UNCHANGED <<stage, copies, summaries>>
    BY <1>1 DEF StreamsRun, httpVars
  <2>2. \A r \in Requests : ListTaken(r)' = ListTaken(r) /\ ListTold(r)' = ListTold(r)
    BY <2>1 DEF ListTaken, ListTold
  <2>3. \A c \in CallerIDs : View[c] # NoRow => View'[c] # NoRow
    BY NoneForgotten, StreamsRefined DEF RequestsTyped, Ownership
  <2> QED
    BY <2>2, <2>3 DEF Listing!AgentsMove
<1>2. CASE Starts \/ Calls \/ UNCHANGED requestVars
  <2>1. UNCHANGED <<vars, lastHello, httpVars>>
    BY <1>2, StartsLeave, CallsLeave DEF requestVars
  <2>2. \A r \in Requests : ListTaken(r)' = ListTaken(r) /\ ListTold(r)' = ListTold(r)
    BY <2>1 DEF ListTaken, ListTold, httpVars
  <2> QED
    BY <2>1, <2>2, ShownStands DEF vars
<1>3. ASSUME NEW r \in Requests, Http(r) PROVE [Listing!ListingNext]_(Listing!listingVars)
  <2>1. View' = View
    BY <1>3, HttpLeaves, ShownStands DEF vars
  <2>2. CASE ListEntries(r)
    <3>1. /\ stage[r] = "idle" /\ stage' = [stage EXCEPT ![r] = "listing"]
          /\ copies' = [copies EXCEPT ![r] = [c \in CallerIDs |-> Copy(c)]]
          /\ summaries' = summaries
      BY <2>2 DEF ListEntries, HttpStep
    <3>2. ListTaken(r)' = {View} /\ ListTaken(r) = {}
      BY <3>1 DEF ListTaken, View, Listings
    <3>3. \A q \in Requests : q # r => ListTaken(q)' = ListTaken(q)
      BY <3>1 DEF ListTaken, Listings
    <3>4. \A q \in Requests : ListTold(q)' = ListTold(q)
      BY <3>1 DEF ListTold, Listings
    <3> QED
      BY <2>1, <3>2, <3>3, <3>4 DEF Listing!Take
  <2>3. CASE ListAgents(r)
    <3>1. /\ stage[r] = "listing" /\ stage' = [stage EXCEPT ![r] = "listed"]
          /\ copies' = copies /\ summaries' = summaries
      BY <2>3 DEF ListAgents, HttpStep
    <3>2. \A q \in Requests : ListTaken(q)' = ListTaken(q)
      BY <3>1 DEF ListTaken, Listings
    <3>3. ListTaken(r) # {} /\ ListTold(r) = {} /\ ListTold(r)' = ListTaken(r)
      BY <3>1 DEF ListTaken, ListTold, Listings, FromCopies
    <3>4. \A q \in Requests : q # r => ListTold(q)' = ListTold(q)
      BY <3>1 DEF ListTold, Listings
    <3> QED
      BY <2>1, <3>2, <3>3, <3>4 DEF Listing!Tell
  <2>4. CASE NextRequest(r)
    <3>1. /\ stage[r] \in {"answered", "listed"} /\ stage' = [stage EXCEPT ![r] = "idle"]
          /\ copies' = [copies EXCEPT ![r] = NoCopies]
          /\ summaries' = [summaries EXCEPT ![r] = NoRows]
      BY <2>4 DEF NextRequest, HttpStep
    <3>2. \A q \in Requests : q # r => ListTaken(q)' = ListTaken(q) /\ ListTold(q)' = ListTold(q)
      BY <3>1 DEF ListTaken, ListTold, Listings
    <3>3. ListTaken(r)' = {} /\ ListTold(r)' = {}
      BY <3>1 DEF ListTaken, ListTold, Listings
    <3>4. CASE stage[r] = "listed"
      <4>1. ListTold(r) # {}
        BY <3>4 DEF ListTold
      <4> QED
        BY <2>1, <3>2, <3>3, <4>1 DEF Listing!Done
    <3>5. CASE stage[r] = "answered"
      <4>1. ListTaken(r) = {} /\ ListTold(r) = {}
        BY <3>5 DEF ListTaken, ListTold
      <4> QED
        BY <2>1, <3>2, <3>3, <4>1
    <3> QED
      BY <3>1, <3>4, <3>5
  <2>5. CASE ServeRoute(r)
    <3>1. /\ stage[r] = "idle" /\ stage' = [stage EXCEPT ![r] = "answered"]
          /\ copies' = copies /\ summaries' = summaries
      BY <2>5 DEF ServeRoute, HttpStep
    <3>2. \A q \in Requests : ListTaken(q)' = ListTaken(q) /\ ListTold(q)' = ListTold(q)
      BY <3>1 DEF ListTaken, ListTold, Listings
    <3> QED
      BY <2>1, <3>2
  <2>6. ASSUME NEW c \in CallerIDs, Summarise(r, c)
        PROVE  UNCHANGED (Listing!listingVars)
    <3>1. /\ stage[r] = "listing" /\ stage' = stage /\ copies' = copies
          /\ \A q \in Requests : q # r => summaries'[q] = summaries[q]
      BY <2>6 DEF Summarise, HttpStep, Listings
    <3>2. \A q \in Requests : ListTaken(q)' = ListTaken(q) /\ ListTold(q)' = ListTold(q)
      BY <3>1 DEF ListTaken, ListTold
    <3> QED
      BY <2>1, <3>2
  <2> QED
    BY <1>3, <2>2, <2>3, <2>4, <2>5, <2>6 DEF Http, Lists
<1> QED
  BY <1>1, <1>2, <1>3, StepKinds

\* A list is what the registry shows at one moment between request and answer, and no
\* caller_id is ever missing from a list that could have been in an earlier one.
THEOREM ListingRefined == RequestsSpec => ImplementsListing
<1>1. RequestsInit => Listing!ListingInit
  <2> SUFFICES ASSUME RequestsInit PROVE Listing!ListingInit
    OBVIOUS
  <2>1. View = [c \in CallerIDs |-> NoRow]
    BY DEF RequestsInit, Init, New, Absent, View, Copy, Summary
  <2>2. \A r \in Requests : ListTaken(r) = {} /\ ListTold(r) = {}
    BY DEF RequestsInit, ListTaken, ListTold
  <2> QED
    BY <2>1, <2>2 DEF Listing!ListingInit
<1> QED
  BY <1>1, ListingsInit, ListingsStep, RequestsTypedInit, RequestsTypedStep, ListingStep, PTL
  DEF RequestsSpec, ImplementsListing, Listing!ListingSpec

-----------------------------------------------------------------------------
(* Credentials.                                                            *)

Configured ==
  gateway \in {"serving", "crashed"} =>
    /\ credentials = BuildCredentials(Config(env))
    /\ credentials # NoCredentials

\* BuildCredentials succeeds with what it was asked for, or fails.
LEMMA CredentialsBuilt ==
  ASSUME NEW cfg, BuildCredentials(cfg) # NoCredentials
  PROVE  /\ cfg["grpc.key_pair"] = "valid"
         /\ BuildCredentials(cfg).certificate
         /\ cfg["grpc.mtls"] = "true" =>
              /\ BuildCredentials(cfg).clientAuth = "RequireAndVerifyClientCert"
              /\ BuildCredentials(cfg).clientCAs = {"ca"}
<1>1. cfg["grpc.key_pair"] = "valid"
  BY DEF BuildCredentials
<1>2. CASE cfg["grpc.mtls"] # "true"
  BY <1>1, <1>2 DEF BuildCredentials, Certified, NoCredentials
<1>3. CASE cfg["grpc.mtls"] = "true"
  <2>1. BuildCredentials(cfg) = Verifying({"ca"})
    BY <1>1, <1>3 DEF BuildCredentials
  <2> QED
    BY <1>1, <2>1 DEF Verifying, Certified, NoCredentials
<1> QED
  BY <1>2, <1>3

LEMMA ConfiguredInvariant == RequestsSpec => []Configured
<1>1. RequestsInit => Configured
  BY DEF RequestsInit, Configured
<1>2. Configured /\ [RequestsNext]_requestVars => Configured'
  <2> SUFFICES ASSUME Configured, [RequestsNext]_requestVars PROVE Configured'
    OBVIOUS
  <2>1. CASE UNCHANGED processVars
    BY <2>1 DEF Configured, processVars
  <2>2. CASE Starts
    BY <2>2 DEF Starts, Construct, ConstructFails, TickerPanics, Process, Configured
  <2> QED
    BY <2>1, <2>2, StepKinds, CallsLeave, HttpLeaves DEF StreamsRun, requestVars
<1> QED
  BY <1>1, <1>2, PTL DEF RequestsSpec

\* ServesAsConfigured holds in every reachable state.
THEOREM ServesUnderCredentials == RequestsSpec => []ServesAsConfigured
<1>1. Configured => ServesAsConfigured
  BY CredentialsBuilt DEF Configured, ServesAsConfigured
<1> QED
  BY <1>1, ConfiguredInvariant, PTL

\* Without a key pair of its own the gateway does not serve, and clients go unverified
\* only where the environment says so: a setting that is missing or empty never does.
THEOREM NothingByDefault ==
  RequestsSpec =>
    [](gateway \in {"serving", "crashed"} =>
         /\ env["grpc.key_pair"] \notin {"unset", "empty"}
         /\ credentials.clientAuth = "none" => env["grpc.mtls"] \notin {"unset", "empty"})
<1> DEFINE Deliberate ==
             gateway \in {"serving", "crashed"} =>
               /\ env["grpc.key_pair"] \notin {"unset", "empty"}
               /\ credentials.clientAuth = "none" => env["grpc.mtls"] \notin {"unset", "empty"}
<1>1. Configured => Deliberate
  <2> SUFFICES ASSUME Configured, gateway \in {"serving", "crashed"}
               PROVE  /\ env["grpc.key_pair"] \notin {"unset", "empty"}
                      /\ credentials.clientAuth = "none" =>
                           env["grpc.mtls"] \notin {"unset", "empty"}
    OBVIOUS
  <2> DEFINE cfg == Config(env)
  <2>1. /\ cfg["grpc.key_pair"] = Setting(env, "grpc.key_pair")
        /\ cfg["grpc.mtls"] = Setting(env, "grpc.mtls")
    BY DEF Config, Keys, GRPCConfig
  <2>2. Defaults["grpc.key_pair"] = "missing" /\ Defaults["grpc.mtls"] = "true"
    BY DEF Defaults, Keys, GRPCConfig
  <2>3. credentials = BuildCredentials(cfg) /\ credentials # NoCredentials
    BY DEF Configured
  <2> HIDE DEF cfg
  <2>4. cfg["grpc.key_pair"] = "valid"
    BY <2>3, CredentialsBuilt
  <2>5. credentials.clientAuth = "none" => cfg["grpc.mtls"] # "true"
    BY <2>3, CredentialsBuilt
  <2> QED
    BY <2>1, <2>2, <2>4, <2>5 DEF Setting
<1> QED
  BY <1>1, ConfiguredInvariant, PTL
=============================================================================
