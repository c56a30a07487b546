---------------------------- MODULE GatewayRequests ----------------------------
(***************************************************************************)
(* What clients and operators see of the gateway while its AgentStream     *)
(* handlers run: the start from a configuration (GatewayConfig), the       *)
(* interceptors every RPC returns through (infrastructure/middleware) with *)
(* the metrics they keep, the HTTP requests (HttpMiddleware), and the list *)
(* of agents (core/agent/service/list.go), which is put together from      *)
(* copies of the registry's entries after its lock has been released.      *)
(*                                                                         *)
(* A step is one statement on what is shared: a handler's, the counter or  *)
(* the line of one interceptor, the answer to the client.  The middleware  *)
(* of the HTTP server shares nothing, so that a response passes all of it  *)
(* in the step that answers.                                               *)
(***************************************************************************)
EXTENDS AgentStreams, GatewayConfig, HttpMiddleware, FiniteSets

CONSTANTS
  Requests,       \* HTTP requests served at a time
  Checks,         \* unary RPCs: calls of the health service
  Metadata,       \* stream -> metadata of its AgentHello
  Environments    \* the environments the gateway may find

VARIABLES
  gateway, env, credentials,   \* the process
  lastHello,      \* caller_id -> the stream whose hello gave its entry's metadata
  answer,         \* health check -> the code its handler has returned, or "none"
  returned,       \* RPC -> how many of its interceptors have returned
  told,           \* RPC -> the code its client has been told, or "none"
  total,          \* grpc_requests_total, by method and code
  lines,          \* the lines the logging interceptors wrote, by method and code
  stage, response,     \* HTTP request -> how far it is, and what it was answered
  copies, left, summaries    \* the slices of a listing, and what is left of one's loop

processVars == <<gateway, env, credentials>>
rpcVars == <<answer, returned, told, total, lines>>
httpVars == <<stage, response, copies, left, summaries>>
requestVars == <<vars, processVars, lastHello, rpcVars, httpVars>>

Methods == {"AgentStream", "Check"}
Rpcs == Streams \cup Checks

Method(x) == IF x \in Checks THEN "Check" ELSE "AgentStream"

Codes == {"OK", "Internal", "InvalidArgument", "AlreadyExists", "Aborted", "NotFound"}

\* Metadata values: a string, the empty string, or anything else.
MetadataValues == {"prod", "dev", "", "not a string"}

ASSUME RequestsAssumption ==
  /\ \A s \in Streams : \E keys \in SUBSET {"environment", "env"} :
       Metadata[s] \in [keys -> MetadataValues]
  /\ \A e \in Environments : DOMAIN e = Keys
  /\ Checks \cap Streams = {}

-----------------------------------------------------------------------------
\* environmentFromMetadata: the first of the two keys with a string that says something.
Said(md, key) == key \in DOMAIN md /\ md[key] \notin {"", "not a string"}

Environment(md) ==
  CASE Said(md, "environment") -> md["environment"]
    [] ~ Said(md, "environment") /\ Said(md, "env") -> md["env"]
    [] OTHER -> ""

NoRow == [status |-> "absent", environment |-> ""]

\* An entry as registry.List copies it, and what the service makes of it.
Copy(c) == [status |-> agents[c].status, hello |-> lastHello[c]]

Summary(entry) ==
  IF entry.status = "absent" THEN NoRow
  ELSE [status |-> entry.status, environment |-> Environment(Metadata[entry.hello])]

\* The list an answer would hold that was made in no time.
View == [c \in CallerIDs |-> Summary(Copy(c))]

ConnectedCount == Cardinality({c \in CallerIDs : Connected(c)})

NoCopies == [c \in CallerIDs |-> [status |-> "absent", hello |-> NoStream]]
NoRows == [c \in CallerIDs |-> NoRow]
NoResponse == Response(200, {}, FALSE, "none")

RequestsInit ==
  /\ Init
  /\ gateway = "building" /\ env \in Environments /\ credentials = NoCredentials
  /\ lastHello = [c \in CallerIDs |-> NoStream]
  /\ answer = [h \in Checks |-> "none"]
  /\ returned = [x \in Rpcs |-> 0]
  /\ told = [x \in Rpcs |-> "none"]
  /\ total = [m \in Methods |-> [code_ \in Codes |-> 0]]
  /\ lines = [m \in Methods |-> [code_ \in Codes |-> 0]]
  /\ stage = [r \in Requests |-> "idle"]
  /\ response = [r \in Requests |-> NoResponse]
  /\ left = [r \in Requests |-> {}]
  /\ copies = [r \in Requests |-> NoCopies]
  /\ summaries = [r \in Requests |-> NoRows]

-----------------------------------------------------------------------------
(* The process.                                                            *)

Process(from, to) ==
  /\ gateway = from
  /\ gateway' = to
  /\ UNCHANGED <<vars, env, lastHello, rpcVars, httpVars>>

\* configs.New, then grpc.New.  Policy is the one the environment asks for.
Construct ==
  LET cfg == Config(env) IN
  /\ Decodes(cfg)
  /\ BuildCredentials(cfg) # NoCredentials
  /\ DuplicatePolicy(cfg) = Policy
  /\ credentials' = BuildCredentials(cfg)
  /\ Process("building", "serving")

ConstructFails ==
  /\ ~ Decodes(Config(env)) \/ BuildCredentials(Config(env)) = NoCredentials
  /\ Process("building", "exited")
  /\ UNCHANGED credentials

TickerStarts == Config(env)["heartbeat.check_interval"] = "positive"

\* time.NewTicker panics in the monitor's goroutine, where nothing recovers it.
TickerPanics ==
  /\ ~ TickerStarts
  /\ Process("serving", "crashed")
  /\ UNCHANGED credentials

-----------------------------------------------------------------------------
(* RPCs.                                                                   *)

\* Mutant: a disconnected entry keeps nothing of its stream.
HelloIsKept_WhileConnected ==
  lastHello' = [c \in CallerIDs |-> agents'[c].stream]

\* A registering method writes the metadata along with the stream; the others
\* leave them in the entry.
HelloIsKept ==
  lastHello' = [c \in CallerIDs |->
    IF agents'[c].stream \in Streams THEN agents'[c].stream ELSE lastHello[c]]

\* The goroutines of AgentStreams.
StreamsRun ==
  /\ gateway = "serving"
  /\ \/ TickerStarts /\ MonitorTick
     \/ ClockTick
     \/ \E s \in Streams : StreamStep(s)
  /\ HelloIsKept
  /\ UNCHANGED <<processVars, rpcVars, httpVars>>

\* The health server answers for itself and for services it does not know.
CheckAnswers(h) ==
  /\ gateway = "serving"
  /\ answer[h] = "none"
  /\ \E result \in {"OK", "NotFound"} : answer' = [answer EXCEPT ![h] = result]
  /\ UNCHANGED <<vars, processVars, lastHello, returned, told, total, lines, httpVars>>

HandlerOver(x) == IF x \in Checks THEN answer[x] # "none" ELSE pc[x] = "ended"

Result(x) == IF x \in Checks THEN answer[x] ELSE code[x]

Chain == Interceptors(Config(env))

\* Every interceptor passes on the error its inner neighbour, or the handler, returned.
ReturnsThrough(x, interceptor) ==
  /\ gateway = "serving"
  /\ HandlerOver(x)
  /\ returned[x] < Len(Chain)
  /\ Chain[Len(Chain) - returned[x]] = interceptor
  /\ returned' = [returned EXCEPT ![x] = @ + 1]
  /\ UNCHANGED <<vars, processVars, lastHello, answer, told, httpVars>>

\* Mutant: the error is not passed to recordGRPCMetrics.
Meters_NoError(x) ==
  /\ ReturnsThrough(x, "metrics")
  /\ total' = [total EXCEPT ![Method(x)]["OK"] = @ + 1]
  /\ UNCHANGED lines

Meters(x) ==
  /\ ReturnsThrough(x, "metrics")
  /\ total' = [total EXCEPT ![Method(x)][Result(x)] = @ + 1]
  /\ UNCHANGED lines

LogsCall(x, interceptor) ==
  /\ ReturnsThrough(x, interceptor)
  /\ lines' = IF LineWritten(interceptor) THEN [lines EXCEPT ![Method(x)][Result(x)] = @ + 1]
              ELSE lines
  /\ UNCHANGED total

\* Behind the chain gRPC sends the status.
Tells(x) ==
  /\ gateway = "serving"
  /\ HandlerOver(x) /\ returned[x] = Len(Chain)
  /\ told[x] = "none"
  /\ told' = [told EXCEPT ![x] = Result(x)]
  /\ UNCHANGED <<vars, processVars, lastHello, answer, returned, total, lines, httpVars>>

Returns(x) ==
  Meters(x) \/ LogsCall(x, "logging") \/ LogsCall(x, "debug") \/ Tells(x)

-----------------------------------------------------------------------------
(* HTTP requests.                                                          *)

HttpStep(r, from, to) ==
  /\ gateway = "serving"
  /\ stage[r] = from
  /\ stage' = [stage EXCEPT ![r] = to]
  /\ UNCHANGED <<vars, processVars, lastHello, rpcVars>>

\* The response goes to the client once the chain has returned; a line is only
\* written where the configured level lets it.
Answers(r, w) ==
  LET sent == Unwind(w)
      shown == {line \in sent.log : Logs(Config(env), line.level)}
  IN  response' = [response EXCEPT ![r] = [sent EXCEPT !.log = shown]]

\* A request that reads nothing that others write, or, as a scrape does, a gauge.
ServeRoute(r) ==
  /\ HttpStep(r, "idle", "answered")
  /\ \E route \in Routes : \E w \in Handled(route) : Answers(r, w)
  /\ UNCHANGED <<copies, left, summaries>>

\* GET /api/v1/agents: registry.List copies every entry under the lock.
ListEntries(r) ==
  /\ HttpStep(r, "idle", "listing")
  /\ copies' = [copies EXCEPT ![r] = [c \in CallerIDs |-> Copy(c)]]
  /\ left' = [left EXCEPT ![r] = {c \in CallerIDs : agents[c].status # "absent"}]
  /\ UNCHANGED <<response, summaries>>

\* Mutant: List returns pointers to the entries themselves.
Summarise_Live(r, c) ==
  /\ HttpStep(r, "listing", "listing")
  /\ c \in left[r]
  /\ left' = [left EXCEPT ![r] = @ \ {c}]
  /\ summaries' = [summaries EXCEPT ![r][c] = Summary(Copy(c))]
  /\ UNCHANGED <<response, copies>>

\* One round of the service's loop, in the order of a Go map.  The sort by caller_id
\* that follows makes that order disappear: a list is a function on caller_ids.
Summarise(r, c) ==
  /\ HttpStep(r, "listing", "listing")
  /\ c \in left[r]
  /\ left' = [left EXCEPT ![r] = @ \ {c}]
  /\ summaries' = [summaries EXCEPT ![r][c] = Summary(copies[r][c])]
  /\ UNCHANGED <<response, copies>>

ListAgents(r) ==
  /\ HttpStep(r, "listing", "listed")
  /\ left[r] = {}
  /\ Answers(r, Wrote(200))
  /\ UNCHANGED <<copies, left, summaries>>

\* The next request takes the place of one that was answered.
NextRequest(r) ==
  /\ \E from \in {"answered", "listed"} : HttpStep(r, from, "idle")
  /\ response' = [response EXCEPT ![r] = NoResponse]
  /\ copies' = [copies EXCEPT ![r] = NoCopies]
  /\ summaries' = [summaries EXCEPT ![r] = NoRows]
  /\ UNCHANGED left

Lists(r) ==
  \/ ListEntries(r) \/ ListAgents(r) \/ NextRequest(r)
  \/ \E c \in CallerIDs : Summarise(r, c)

\* All but the requests of other routes.
Serves ==
  \/ Construct \/ ConstructFails \/ TickerPanics
  \/ StreamsRun
  \/ \E h \in Checks : CheckAnswers(h)
  \/ \E x \in Rpcs : Returns(x)
  \/ \E r \in Requests : Lists(r)

RequestsNext == Serves \/ \E r \in Requests : ServeRoute(r)

RequestsSpec == RequestsInit /\ [][RequestsNext]_requestVars

-----------------------------------------------------------------------------
(* Properties.                                                             *)

\* The types; and an entry has metadata exactly if there is an entry.
RequestsTypeOK ==
  /\ TypeOK
  /\ gateway \in {"building", "serving", "exited", "crashed"}
  /\ env \in Environments
  /\ \A c \in CallerIDs :
       IF agents[c] = Absent THEN lastHello[c] = NoStream ELSE lastHello[c] \in Streams
  /\ answer \in [Checks -> {"none", "OK", "NotFound"}]
  /\ returned \in [Rpcs -> 0 .. Len(Chain)]
  /\ told \in [Rpcs -> Codes \cup {"none"}]
  /\ \A r \in Requests :
       /\ stage[r] \in {"idle", "listing", "listed", "answered"}
       /\ left[r] \subseteq CallerIDs
       /\ response[r].status \in Statuses

\* The list a request will answer once it has the copies, and the one it has answered.
ListTaken(r) ==
  IF stage[r] \in {"listing", "listed"} THEN {[c \in CallerIDs |-> Summary(copies[r][c])]}
  ELSE {}

ListTold(r) == IF stage[r] = "listed" THEN {summaries[r]} ELSE {}

Listing == INSTANCE AgentListing WITH
  Unknown <- NoRow, shown <- View,
  taken <- [r \in Requests |-> ListTaken(r)], told <- [r \in Requests |-> ListTold(r)]

\* For its clients the whole of a listing happens in one step, although handlers and
\* monitor change the registry between the copies and every row made of them; and
\* no list lacks an agent that an earlier one could have shown, since no way of
\* losing a connection removes the entry (list.go:30-46, registry.go:127-136, 182-192).
ImplementsListing == Listing!ListingSpec

\* A request that panicked is answered and logged as one that did, errors are answered
\* as a failure unless the response had begun, and what the client is told is what the
\* log says: no panic passes recovery or the logger by, and no configured level hides a
\* 5xx (server.go:67-69, 127-205).
FailuresAreTold ==
  \A r \in Requests : stage[r] \in {"listed", "answered"} => IsTold(response[r])

Returned(method, result) ==
  {x \in Rpcs : Method(x) = method /\ HandlerOver(x) /\ Result(x) = result}

Told(method, result) == {x \in Rpcs : Method(x) = method /\ told[x] = result}

\* Of both methods and of every code: whatever clients have been told has been counted,
\* what has been counted has been logged, and nothing is counted or logged that no
\* handler has returned; once nobody is in the chain the four agree (metrics.go:21-58,
\* interceptors.go:32-68, grpc/server.go:174-186).
AccountsForRpcs ==
  \A method \in Methods, result \in Codes :
    /\ Cardinality(Told(method, result)) <= total[method][result]
    /\ total[method][result] <= lines[method][result]
    /\ lines[method][result] <= Cardinality(Returned(method, result))

\* The call has returned through the interceptor.
Passed(x, interceptor) ==
  \E i \in DOMAIN Chain : Chain[i] = interceptor /\ returned[x] > Len(Chain) - i

\* active_agents_total never exceeds the AgentStream RPCs that grpc_requests_total has
\* not counted yet: a handler deregisters before its outcome is counted, whichever way
\* it left its loop (registry.go:195-206, metrics.go:35-47).
GaugeWithinInFlight ==
  ConnectedCount <= Cardinality({s \in Streams : ~ Passed(s, "metrics")})

\* A gateway that serves does so under its own certificate, and with mTLS under a
\* pool of client CAs that is not empty: whatever is wrong with the files shows
\* before the first connection (grpc/server.go:137-168).
ServesAsConfigured ==
  gateway \in {"serving", "crashed"} =>
    /\ credentials.certificate
    /\ Config(env)["grpc.mtls"] = "true" =>
         credentials.clientAuth = "RequireAndVerifyClientCert" /\ credentials.clientCAs # {}
=============================================================================
