# TLA+ verification of the KubeDiscovery control plane

KubeDiscovery connects Kubernetes clusters to a control plane. An agent (`kd-agent`)
opens one long-lived bidirectional gRPC stream (`AgentStream`) to the gateway
(`services/kd-gateway`); the gateway keeps the connected agents in memory, routes
commands to them over those streams and hands their answers back to whoever waits.
`services/kd-store` is the persistence service; so far it migrates its PostgreSQL schema and
opens its connections. The other services the documents
describe (agent, analyzer, executor, MCP server, CLI) exist only as protocol
definitions so far.

This directory holds TLA+ modules of the parts that have state and concurrency, the
TLC configurations that check them, and proofs that TLAPS checks. Paths below are
relative to `services/kd-gateway/internal` unless they start with `services/`.
`PROJECT.json` maps every definition to the lines it models.

## 1. Inventory

| component | state | operations | interacts with |
|---|---|---|---|
| Agent registry `core/agent/registry`, `entity` | map caller_id → entry (status, stream, last-seen time), map caller_id → evict channel, one mutex | Register, ForceRegister, Deregister, TouchHeartbeat, ExpireStale; GetConnectedStream, List, Get, ConnectedCount only read | called by handlers, monitor, router, listing service, metrics |
| AgentStream handler `core/agent/handler/grpc_handler.go` | per RPC: two goroutines, `recvCh`, `done`, the `evicted` flag, the evict channel | first Recv, registration by policy, the select loop, deferred deregistration | registry (calls), its reader goroutine (channels), router (`Deliver`), transport |
| Heartbeat monitor `core/agent/heartbeat` | a ticker, a cancelable context | sweep, start, stop | registry, fx |
| Command router `core/agent/router` | map request_id → one-place result channel, one mutex | Send, Deliver | registry (look-up), gRPC streams (Send), handlers (Deliver) |
| Process lifecycle `infrastructure/grpc`, `http`, `core/agent/module.go`, `cmd/grpc` | fx's hooks, both servers, stop timeouts | build, OnStart, OnStop, graceful and forced stop | everything above |
| Agent listing `core/agent/service`, HTTP handler | the slices of one request | List, ListAgents | registry (copies), HTTP server |
| HTTP server `infrastructure/http` | per request: response, errors | routes, logger, recovery and error middleware | listing, metrics, logger |
| Interceptors and metrics `infrastructure/middleware`, `observability` | request counters; a gauge read from the registry | one interceptor per concern, around each RPC | every RPC, registry, `/metrics` |
| Configuration `services/kd-gateway/configs`, credentials in `infrastructure/grpc` | values read once | New, BuildCredentials | everything above |
| kd-store `services/kd-store` | schema version, dirty flag and advisory lock in PostgreSQL; migrator, pool and cache client of each process | construction, migrations on start, pings, close | fx, PostgreSQL, Redis, other kd-store processes |

What makes each part hard, and what makes it correct:

- **Registry.** Each method is atomic, but callers use several in a row
  (`Register`, then `ForceRegister`) and all go by caller_id, so a late call of an old
  stream hits the entry of a new one. Correct: the evict channel always belongs to the
  connected stream; a channel is closed once; an entry changes hands only for a reason.
- **Handler.** `select` between evict channel and `recvCh` when both are ready; the
  deferred deregistration on every way out; a reader goroutine that must end although
  nobody reads `recvCh` any more. Correct: no entry names a finished RPC, an evicted
  handler returns, only the owner deregisters.
- **Monitor.** A clock and a threshold against frames in flight. Correct: a vanished
  agent loses its entry.
- **Router.** Stream looked up before the waiter is added, channel looked up under the
  lock and used outside it, late and repeated answers, retries with the same
  request_id, contexts that end at any moment. Correct: commands reach the agent they
  name, answers reach the caller they belong to, nothing leaks, nobody blocks a
  stream's loop.
- **Lifecycle.** Hooks that wait for clients, under two nested timeouts. Correct: a
  graceful stop leaves no agent connected; the process does not exit with its servers
  running.
- **Listing, HTTP and metrics.** They look at a registry that handlers and the monitor go
  on changing, and report what became of calls and requests that may fail at any point.
  Correct: a list is one moment's; a failure is not told as a success; each call is
  counted and logged with the outcome its client is told, in that order.
- **Configuration.** Everything comes from the environment; most mistakes show when the
  server is built, some later. Correct: it serves with the checks it was told to make or
  not at all.
- **kd-store.** A crash in the middle of a migration; replicas of two images starting at
  once; the row of `schema_migrations` read outside the lock it is written under;
  components that fx constructs only when something asks for them; SQL files that are embedded
  and passed over. Correct: every migration golang-migrate finds takes effect once and in
  order, the row tells the truth, and no pool comes up before the migrations of its image
  have been applied, which two of them never are (section 6).

`PROJECT.json` lists these hazards line by line with the properties that cover them.

## 2. Modules

| module | models | lines |
|---|---|---|
| `AgentRegistry` | the registry: one action per method, since each holds the mutex throughout | `registry.go`, `entity/agent.go` |
| `AgentStreams` (extends it) | all AgentStream RPCs: handler and reader goroutines, policy, monitor, clock, transport | `grpc_handler.go`, `monitor.go` |
| `AgentPresence` | abstract: which stream each caller_id is routable to; streams appear once and vanish | what `GetConnectedStream` promises |
| `CommandCalls` | abstract: what callers of `Send` are promised; one outcome per call, nothing sent after it | the error semantics of `router.go` |
| `CommandRouter` (extends `AgentPresence`) | every `Send` and `Deliver`, step by step | `router.go` |
| `GatewayCommands` (extends `AgentStreams`, instantiates `CommandRouter`) | the router over the real registry, handlers and readers; results pass `recvCh` and the stream loop | `grpc_handler.go`, `module.go` |
| `GatewayLifecycle` (extends `AgentStreams`) | the process: fx hooks, both servers, stop timeouts, around the real handlers | `grpc/server.go`, `http/server.go`, `module.go`, `monitor.go` |
| `GatewayConfig` | from environment to credentials, interceptor chains, log level and policy, as operators | `configs/*.go`, `grpc/server.go`, `logger.go` |
| `HttpMiddleware` | handlers and middleware as functions on a response | `http/server.go` |
| `AgentListing` | abstract: a list is the registry at one moment of its request, and lacks no agent that was ever shown | what `List` promises |
| `GatewayRequests` (extends `AgentStreams` and both) | RPCs through their interceptors, HTTP requests, listings | `middleware/*.go`, `service/list.go`, `http_handler.go` |
| `SchemaHistory` | abstract: each migration that golang-migrate recognises once, in order, and no other | comments of `migrations.go` |
| `StoreStart` (extends it) | kd-store processes over one database: construction, hooks, migrations, crashes, repairs | `migrations.go`, `postgres.go`, `redis.go`, `configs` of kd-store |
| `AgentStreamsProofs`, `CommandRouterProofs`, `GatewayProofs`, `GatewayCommandsProofs`, `HttpMiddlewareProofs`, `GatewayRequestsProofs`, `StoreProofs` | theorems | |
| `MC*` | definitions for TLC only: symmetry, request_ids, environments, images | |

**How state corresponds to code.** A stream `s` names one RPC. `pc[s]` is the handler
goroutine's position (`AgentStreams` lists the labels), `reader[s]` the reader's,
`held[s]` the result it carries, `recvCh[s]` the one-place channel. `evicted` is not a
variable: it is set exactly where the handler returns `Aborted`, so it is
`code[s] = "Aborted"`. An evict channel is made for one stream and never passed on, so
it goes by the stream's name: `evictChans[c]` is the map, `closed` the set of closed
channels. `time.Now()` and `LastSeenAt` are only ever compared by their difference,
which is `idle`. `link[s]` is what `Recv` finds: frames (`"up"`), nothing at all
(`"silent"`, a half-open connection) or an error. In `CommandRouter` a `Send` is a
call `k` at position `pc[k]`; its channel, and so its waiter, goes by the name of the
call that makes it. In `GatewayLifecycle` `hooks` is fx's own count
of started hooks, `elapsed` the time since the signal. In `GatewayCommands` the
variables of both modules stand side by side (`CommandRouter`'s `pc` is called `at`), and
`presence` and `owner` are functions of registry and handlers. In `GatewayRequests`
`lastHello[c]` is the stream whose hello an entry's metadata come from; `copies`, `left` and
`summaries` are the slices of one `List`; `returned[x]` says how many interceptors the call has
come back through and `told[x]` what its client has been told. A response in `HttpMiddleware` is a
status, what its body is made of, whether the handler left errors, what became of a panic,
and the lines logged. In `StoreStart` `version` and `dirty` are
the row of `schema_migrations`, `lock` the advisory lock of golang-migrate, and `applied`
what the schema really contains, which no process can see. `Image[p]` is the newest migration
embedded in a binary, `Recognised` are the migrations whose file names golang-migrate's `iofs` source can
read (`<version>_<title>.up.sql`), and `Source(p)` those of the image that `Up` gets to see.

**Granularity.** A step is what one goroutine does between two points at which others
can be seen: a whole registry method, one channel operation, one receive. `Register`
and `ForceRegister` are two steps of the handler because they are two critical
sections. `Deliver` is two steps because it sends after unlocking. An RPC returns through
its chain one interceptor at a time, since other RPCs write the same counters and lines and a
scrape may come in between, and its client is told in a step of its own. An HTTP request returns
through its middleware in one step: they touch nothing but its own response. A listing takes a step for the copies and one per entry, since the
registry runs on meanwhile. A migration takes three: the mark, its SQL, the clearing of
the mark, each a statement of its own to PostgreSQL.

**What is abstracted.** Payloads: a frame is a heartbeat or another; a command result
is named by the call it answers. Texts: a setting is taken for what the code makes of it
(a file for what reading it gives, an interval for its sign), metadata for the two keys
that are looked at. Times are left out unless a timeout or the TTL depends on them, and so
are the durations in logs and metrics. gRPC and HTTP codes are kept.

**Mutants.** An operator named `X_SomeBug` just before `X` is `X` with a plausible
mistake. No specification uses them; each is there to show that a property would
notice the mistake.

## 3. Runs

Passing:

| run | question | instance |
|---|---|---|
| `evict_previous` | Do entries, evict channels and handlers stay matched while streams evict each other and entries expire, for which reasons does a stream lose its entry, can it come back, and is the whole an `AgentPresence`? | 1 caller, 3 streams, TTL 1 |
| `stream_liveness` | Do evicted handlers return, reader goroutines end, vanished agents get dropped? | 1 caller, 2 streams, fairness |
| `router` | Do commands and answers reach the right side with streams coming and going, and does a shared request_id leak or block anything; are callers kept the promise of `CommandCalls`? | 2 calls, 1 agent with 2 streams, request_ids equal or not, fairness |
| `commands` | Is the router inside the gateway the router of `CommandRouter`, and does a result that arrives reach its call? | 1 call, 1 agent with 2 streams, evict_previous, TTL 0, fairness |
| `gateway_stop` | Is nobody connected after a graceful stop, and no transport or HTTP request left open by a clean exit, whatever the handlers were doing? | 2 streams, TTL 2, grace 1, fx's stop timeout 2 (a tick is 15 s) |
| `requests` | Are listings, error answers, metrics and credentials what they claim to be, and does a caller_id keep its one owner under reject_new until its entry expires? | 2 callers, 2 streams, reject_new, TTL 0, 1 HTTP request at a time, 1 health check, 6 environments |
| `store_start` | Do the migrations golang-migrate recognises take effect once and in order, whatever crashes, does a start settle, and is no pool up before those of its image are applied? | 3 processes of 2 images, 4 migrations, 2 of them recognised, fairness |

Runs that refute a statement of the repository (section 6): `evict_race`,
`concurrent_send`, `stop_cut_short`, `store_false_dirty`, `store_unapplied`.

**Why the bounds are enough.** Eviction involves an occupant and a newcomer; the
third stream adds a second newcomer between `Register` and `ForceRegister`, and a chain
of evictions in which the middle stream is newcomer and occupant. A stream registers
once and then only ends, so more streams repeat these roles. Only "stale or not" is
read from `idle`, so a TTL of one tick has all the cases (fresh, about to be stale,
stale); the lifecycle run uses 2 because its tick is 15 s and the default TTL 30 s. That run gives fx twice
the server's timeout, so that a forced stop can be over before fx gives up; `stop_cut_short` has the
two equal, as the code has them. Callers
share nothing but the mutex, so one caller suffices for safety, and two show that
they do not interfere. In the largest run a link only ends in the ways
`isStreamClosed` recognises; `stream_liveness` has both kinds of
end. Two calls are the least that share agents, streams or a request_id; with both on one
caller_id that changes streams, each of them is the other's interference, and `CommandRouterProofs`
has the safety properties for any number of agents. `commands` asks what the composition adds, for
which one call is enough: two calls meet in `CommandRouter` only. It leaves out heartbeats and
silent links, which only keep an entry from becoming stale or let it become so, and has
TTL 0, where any tick of the clock makes an entry stale.

In `requests` two callers are the least for which a list can mix two moments, and
two streams the least for one of them to go while the other comes; with different
metadata under both keys. Requests share nothing but the registry, so one at a time is
enough, and `NextRequest` lets it come back. The environments are the default one, two that serve
(one with a policy nobody knows and all else plain, one with everything switched on and a
ticker that panics) and three that do not. `MCNext` leaves out interleavings that cannot matter to one another:
other routes are asked for before the first hello and their answer is the last thing to happen before
the next request, because neither reads what streams do; and while the health check is in the chain only
other RPCs move in theirs, which is where the two meet. `GatewayRequestsProofs` has no such bound. TTL 0
has an entry expire at any tick of the clock.
In the runs of kd-store the migrations are the four files of the repository, of which golang-migrate
recognises the first two. In `store_start` one process has an image of the first file only and two have the one
with all four, which has a newer process migrate under an older one, an older one start on a newer
schema, and two compete for one migration; a process that starts again is the next process.
`store_unapplied` needs one process, and an empty database. In `store_start`
both providers that infrastructure.Module offers beside the migrator are asked for,
although `cmd/grpc/main.go` asks for neither yet: with nothing asked for, fx constructs
nothing, and kd-store starts without migrating.

Symmetry is used only where no liveness is checked. `gateway_stop`, `stop_cut_short`,
`requests` and the runs of kd-store do not look for deadlocks, because processes that have
exited stay where they are. The proofs remove the bounds from the properties listed in section 5.

**Bounds in the modules.** `idle` stops at `TTL + 1`, beyond which all values are
stale alike; the entry behaves the same. `elapsed` stops at `StopTimeout`, where fx
gives up. The number of RPCs, calls and processes is the size of `Streams`, `Calls`,
`Checks` and `Procs`: each opens, is called or starts once. `Last` bounds the migrations. Nothing
else grows.

## 4. Fairness

Safety runs assume none. `AgentStreams!Spec` assumes that each handler and each reader
that can move does (`WF`, the Go scheduler), that the monitor's ticker fires and time
passes (`WF`), and strong fairness of `TakeEvict`: Go's `select` chooses uniformly
among ready cases, so a case that is ready again and again is not passed over for
ever. Agents and links get none: an agent may never send, a half-open link may stay silent.
In the router only the steps of `Send` and `Deliver` that depend on nobody else are
fair: agents need not answer, contexts need not end, and `stream.Send` need not return,
as flow control may block it for ever. `Timely`,
under which `evict_race` runs, is not fairness but an assumption on agents: heartbeats arrive before the
TTL. It shows that the race needs no expiry.

`CommandsSpec` takes over what `AnswerArrives` needs of both: handlers, readers and the own
steps of `Send` (`WF`). `StoreSpec` assumes that a process that was started is scheduled and that
PostgreSQL answers each statement, for better or worse (`WF`); nobody owes the database a
repair, no signal need come, and a process that is off need not start. `requests` needs none.

In `GatewayLifecycle` time passes during a stop only while an `OnStop` waits for a
client: everything else takes microseconds against timeouts of 15 s.

## 5. Proofs

`tlapm` checks all of them; they hold for every set of callers and streams, every
TTL, and every other constant the named ASSUMEs allow (a nil value outside the
set it stands beside; natural numbers; one of the two policies).

- **`AgentStreamsProofs`.** The properties of `evict_previous` are not inductive: that
  nobody closes a channel twice needs that the map's channel is the connected stream's
  and that a closed channel's stream is in no entry; that needs that a stream that has
  not registered is unknown to the registry. `Ownership` is their conjunction with the
  types. Each method of the registry gets a lemma, each group of handler steps another,
  and `OwnershipStep` puts them together. Consequences: `EvictChannelMatchesEntry`,
  `NoDoubleClose`, `RegistryServesLiveStreams`, `AbortedLostEntry`, the action properties
  `EvictionHandsOver` and `LossIsExplained` (an entry moves only in a
  registry method, and `Ownership` says whose handler calls it), and the refinement `ImplementsPresence` (initial states and steps of
  `AgentStreams` are those of `AgentPresence` or stutters: a stream only appears
  in the step that starts its reader). `ExclusiveUntilExpiry` is proved for
  reject_new with `Unforced`, which adds to `Ownership` that no handler is ever about to register by
  force: then only a sweep, which needs a stale entry, takes an entry from a handler that goes on.
- **`CommandRouterProofs`.** `Routing` relates each call's position to its waiter, to
  what it sent and to the results in its channel. It yields `SentToTarget` and
  `NoWaiterLeak` for any request_ids, and `AnswersOwnCommand` and `WaitingIsReachable` for
  every call whose request_id no other call shares (`Unshared`, which both properties name):
  calls that share theirs do replace each other's waiters. `Progress` (a command is in `sent` exactly
  from `stream.Send` on, and nobody is answered before Send is over) and `Routing` (a result in a channel is
  that of a sent command under the channel's request_id) give
  `ImplementsCalls`, for shared request_ids too.
- **`GatewayProofs`.** Every step of the gateway is a step of `AgentStreams`, a stutter
  of it, or `ForceStop`, which touches links only. So `Ownership` carries over, and
  with "unopened streams have done nothing" and "a drained server has no
  handler left" it gives `DrainedIsDeregistered`; with the step lemma of `PresenceRefined`,
  that the gateway implements `AgentPresence` from start to exit. `GatewayKeepsInvariants` and
  `GatewayKeepsEntries` carry the invariants and action properties of `AgentStreams` over, `ForceStop`
  being the one step to look at. `GatewayRejectsNew` does the same for `ExclusiveUntilExpiry` under reject_new. `CleanExits` needs `StopOrder`, which says how far each server is at each
  count of hooks and that an OnStop that timed out is remembered in `failed`, and
  `TransportsClosed`: once the server is stopped, every RPC it opened has ended or lost its link,
  and a link that ended stays so.
- **`HttpMiddlewareProofs`.** The chain as functions, from the handler outwards: what the responses of the routes
  can be, then one lemma for each middleware that says what it leaves of body, errors, panic and
  log. A panic stays visible in the response as "recovered", so that `IsTold` can ask for
  its answer and its line. `ChainTells` puts them together in the order of `engine.Use`, also for a log
  from which the lines below the level error have been left out.
- **`GatewayCommandsProofs`.** Steps of handlers and registry are steps of
  `AgentPresence` (by `PresenceRefined`'s lemma) while the router stands still; steps of the
  router leave `presence` and `owner` alone; the one step that is both, `TakeResultFrame`, is a
  `LookUpWaiter`, for which a stream with a frame in `recvCh` must have registered. Hence
  `ImplementsRouter` and `LooksUpLiveStream`. `CommandsKeepHandlers` says that the composition takes
  nothing away from `AgentStreams`. The theorems about the router come over by instantiating
  `CommandRouterProofs` itself (`RouterFacts`), with `presence` and `owner` as the functions of the registry
  that they are in `Router`: `RouterAssumed` discharges the assumption on the constants,
  `FactsApply` identifies the two instances. Hence `CommandsReachHello`, `GatewayAnswersOwn`,
  `GatewayWaiters` and `GatewayKeepsPromise`.
- **`GatewayRequestsProofs`.** `Listings` says how far each list has come: rows done agree with
  the copies. Hence `ImplementsListing`, where a request has taken its list once it has the copies: the step
  that makes them sees one state of the registry, the loop changes nothing, and a step of handlers or monitor
  leaves the copies alone and forgets no entry.
  `GaugeWithinInFlight` is a counting argument: `Ownership` makes caller_id → stream an
  injection from the connected entries into the streams that have not returned; it assumes finitely many streams.
  `AccountsForRpcs` is another: `Beyond(k, method, result)` are the RPCs that have come back through at least `k`
  interceptors with that result, and `Accounts` says that the counter is the size of the set beyond the metrics
  interceptor and the lines that of the set beyond the logging one, whatever else the configuration has in the chain
  (`ChainShape`: metrics is outermost and logging next to it, with or without the debug interceptor inside).
  A step of one RPC adds one element to one of these sets (`OneBeyond`, `Booked`); the sets are
  nested, and the RPCs whose clients have been told are in the smallest. It needs that a handler that
  has returned keeps its code. `FailuresAreTold` comes from `ChainAnswers` and from the
  fact that no configured level hides an error. `RequestsTypeOK` needs that an entry is
  never removed. `Configured` ties the credentials of a running gateway to its environment; with
  the lemma on what `BuildCredentials` returns it gives `ServesAsConfigured` and `NothingByDefault`.
  `RequestsKeepHandlers` carries the theorems about `AgentStreams` over.
- **`StoreProofs`.** `StoreInv` is the types with "who migrates holds the lock",
  `RecordMatchesSchema`, "a marked migration is the one at `version`, and has run or not as its
  process's position says", and "a started pool has a started Migrator, and while a Migrator is started
  every migration of its source is applied" (`UpOnSchema`: nothing takes a migration back). It gives the
  invariants and the refinement of `SchemaHistory`, for any set of recognised files and any image.

**Only model-checked.** The leads-to properties (`EvictedStreamEnds`,
`ReaderTerminates`, `SilentAgentIsDropped`, `WaitingReturns`, `DeliverReturns`, `AnswerArrives`,
`StartSettles`): liveness under fairness is out of the prover's reach. Every invariant, action property
and refinement of the passing runs is a theorem.

## 6. What the code does against what it says

Shown by a run:

1. **An evicted handler may deregister its successor** (`evict_race`). The loop's
   `select` may take a Recv error although the evict channel is closed, or the
   eviction comes after that choice; `evicted` stays false and `Deregister` disconnects the new
   entry and drops its channel. The comments at `registry.go:84-85` and `124-126` rule
   this out. `LossesExplained` bounds the damage: whoever loses an entry this way loses it to a handler of
   its own caller_id that does not answer `Aborted`, and by `PresenceRefined` only a new stream repairs it.
2. **Concurrent `Send`s to one agent use one gRPC stream from two goroutines**
   (`concurrent_send`), which gRPC does not allow; the package promises safety for concurrent use.
3. **fx gives up before the gRPC server is stopped** (`stop_cut_short`): its timeout equals the
   server's and starts earlier, so the forced stop comes too late whenever an agent stays
   connected, and a slow HTTP request keeps the gRPC server from being told at all.
4. **A start fails for a dirty database while another process is migrating**
   (`store_false_dirty`): `RunMigrations` reads the row before `Up` takes the lock, and golang-migrate
   marks every migration dirty while it runs. Nothing failed, and the operator the
   message asks for has nothing to do.
5. **Two embedded migrations are never applied** (`store_unapplied`).
   `000002_create_events_table.sql` and `000003_create_analysis_memory_table.sql` lack the `.up` that the
   `iofs` source (`migrations.go:125`) looks for and are passed over without an error: kd-store starts,
   records version 1 and serves without their tables, although `migrations.go:4-5` has all pending migrations
   applied, and `integration_postgres_test.go:61-62` inserts into both tables.

Read off the models, without a run of its own:

- A handler whose entry expired deregisters whoever came after it, since `Deregister` goes by
  caller_id (`registry.go:131`), without any eviction, against the comment at `registry.go:126`. No property
  excludes it: it is one of the losses of `LossIsExplained`, and under reject_new the reason why
  `ExclusiveUntilExpiry` speaks of no time after an expiry.
- Expiry drops the evict channel without closing it (`registry.go:228`), so both goroutines of a
  half-open stream stay blocked; the specification of the gateway
  (`openspec/changes/kubediscovery-platform-architecture/specs/kd-gateway-core/spec.md:21`) says the
  stream's resources are released.
- `Send` may outlive its context inside `stream.Send` (`router.go:73`), against
  `router.go:46-47`: `StreamSendReturns` is therefore without fairness.
- The default configuration does not start: it has no key pair, and its
  `client_ca_file` begins with `~`, which `os.ReadFile` does not expand. A check for an empty
  `client_ca_file` (`grpc/server.go:149`) is never reached from an environment, because viper
  takes an empty variable for one that is not set. `NothingByDefault` is the good side of it: nothing is served
  and nobody goes unverified for want of a setting.
- A `duplicate_policy` nobody knows means `reject_new`; a `check_interval` that is not positive
  panics in the monitor's goroutine after a successful start (`TickerPanics`).
- The debug interceptors log at slog's level debug to slog's default logger, whose level is
  info and which nobody replaces: `GRPC_DEBUG` adds no line (`LineWritten`), whatever
  `docs/KD-GATEWAY.md:195` and the table after it say.
- The handler for a method that is not allowed is never called: gin looks for other methods only when
  `HandleMethodNotAllowed` is set.
- A panic in a handler whose body has begun is logged and answered, but the answer comes too late: gin keeps the
  status and appends the error payload to what has been sent (`server.go:175`), so that a client gets a 200 whose body is
  neither, and the request line is one of level info. `IsTold` allows exactly this case; the panic's own line is its only sign.
- An image older than the schema refuses to start (`Refuse`), while
  `openspec/changes/kubediscovery-platform-architecture/design.md:273` describes a rollback as
  deploying the previous image. A process of the older image that is up already serves on while a newer one migrates:
  `ServesItsSchema` says that nothing of its own schema is missing, not that there is nothing more.
- `cmd/grpc/main.go` of kd-store asks for no provider and provides no logger for one, so that nothing is
  constructed; `configs/database.go` documents variables `DB_*`, and the code reads `DATABASE_*`.

## 7. Not modelled, and why

- Generated protocol code, which has no state; services that only exist as documents or
  skeletons; `kd-agent`, which is the external far end of a stream; the shared helpers, which
  are stateless one-liners.
- Settings no modelled behaviour depends on: addresses, HTTP timeouts, trusted proxies, pool sizes,
  service names. The OTLP exporter, which nothing asks for and fx therefore never constructs.
- Durations and wording of log lines and metrics; the time of last activity in a listing.
- `registry.Get`, which nothing calls; `health.Watch`, a stream of gRPC's own health server.
- What uses the pool and the cache of kd-store: there is no such code yet.
- Memory-model effects: registry and router guard their maps with mutexes throughout, and
  `evicted` belongs to one goroutine.

## 8. Plan

Done: all modules of section 2 and the theorems of section 5. Left, in this order:

1. **Liveness of the whole gateway**: that a call of `Send` with a context that ends returns in
   `GatewayCommands` too, for which the instance is too large with two calls. For TLC only.
2. **Services of kd-store** over pool and cache, and the callers of `Router.Send`, once they exist.
