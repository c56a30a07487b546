------------------------------- MODULE StoreStart -------------------------------
(***************************************************************************)
(* Processes of kd-store that start, serve and stop over one PostgreSQL    *)
(* database: internal/infrastructure/database/{migrations,postgres}.go and *)
(* cache/redis.go under the fx application of cmd/grpc/main.go.            *)
(*                                                                         *)
(* version and dirty are the row of schema_migrations, lock is the         *)
(* advisory lock golang-migrate holds while it migrates, and applied what  *)
(* the schema really contains, which nobody can read off the row.  A       *)
(* restarted process is another element of Procs.                          *)
(*                                                                         *)
(* at[p]:  "off"       not started                                         *)
(*         "starting"  fx is between two OnStart hooks                     *)
(*         "checked"   RunMigrations found the row clean, calls Up         *)
(*         "locked"    Up holds the lock, between two migrations           *)
(*         "marked"    the next migration is recorded, dirty, and not run  *)
(*         "ran"       its SQL has run, and it is still marked dirty       *)
(*         "running", "stopping", "exited"                                 *)
(***************************************************************************)
EXTENDS SchemaHistory

CONSTANTS
  Procs,
  NoProc,    \* holder of a free lock
  Image,     \* Image[p]: the newest migration embedded in the binary of p
  Asked      \* the providers of infrastructure.Module the application asks for

Hooks == {"migrator", "pool", "cache"}

\* The migrations the iofs source of a process offers to Up: of those embedded in its
\* binary, the ones golang-migrate recognises.
Source(p) == {m \in Recognised : m <= Image[p]}

ASSUME StoreAssumption ==
  /\ NoProc \notin Procs
  /\ Image \in [Procs -> 0 .. Last]
  /\ \A p \in Procs : Source(p) # {}
  /\ Asked \subseteq Hooks

VARIABLES
  version, dirty, lock,   \* and applied: the database
  at, started, outcome    \* the processes

dbVars == <<version, dirty, lock, applied>>
procVars == <<at, started, outcome>>
storeVars == <<dbVars, procVars>>

Migrating == {"locked", "marked", "ran"}

\* The ends of a process; "cut" is one in the middle of a migration.
Ends == {"none", "config", "dirty", "refused", "cut", "failed", "stopped"}

StoreTypeOK ==
  /\ version \in Recognised \cup {0}
  /\ dirty \in BOOLEAN
  /\ lock \in Procs \cup {NoProc}
  /\ applied \in [Migrations -> {0, 1}]
  /\ at \in [Procs -> {"off", "starting", "checked", "running", "stopping", "exited"}
                        \cup Migrating]
  /\ started \in [Procs -> SUBSET Hooks]
  /\ outcome \in [Procs -> Ends]
  /\ \A p \in Procs : at[p] \in Migrating <=> lock = p

StoreInit ==
  /\ HistoryInit
  /\ version = 0 /\ dirty = FALSE /\ lock = NoProc
  /\ at = [p \in Procs |-> "off"]
  /\ started = [p \in Procs |-> {}]
  /\ outcome = [p \in Procs |-> "none"]

-----------------------------------------------------------------------------
(* Building the fx application.                                            *)

\* Mutant: Params no longer asks for the Migrator.
Needs_Nothing(h) == {}

\* The parameters of the constructors order the hooks: the pool takes the Migrator.
Needs(h) == IF h = "pool" THEN {"migrator"} ELSE {}

\* fx constructs what is asked for and what that needs, and nothing else.
Constructed == Asked \cup UNION {Needs(h) : h \in Asked}

\* What may be wrong with the settings of a process.  database.host and cache.addr
\* have defaults, and viper ignores a variable that is empty.
NoDatabase == {"no database name", "no database user"}

DatabaseFaults ==
  NoDatabase \cup {"ill-formed DSN", "ill-formed pool duration", "database unreachable"}

CacheFaults == {"ill-formed cache duration"}
Faults == DatabaseFaults \cup CacheFaults \cup {"ill-formed number"}

\* What the constructors return an error for.  Migrator and pool check the same
\* settings; only the Migrator connects to the database.
MigratorRejects == DatabaseFaults \ {"ill-formed pool duration"}
PoolRejects == DatabaseFaults \ {"database unreachable"}
CacheRejects == CacheFaults

\* Every constructor takes the Config, whose own constructor refuses ill-formed numbers.
Rejects(h) ==
  {"ill-formed number"} \cup
  CASE h = "migrator" -> MigratorRejects
    [] h = "pool" -> PoolRejects
    [] h = "cache" -> CacheRejects

Goes(p, label) == at' = [at EXCEPT ![p] = label]

EndsWith(p, label, end) ==
  /\ Goes(p, label)
  /\ outcome' = [outcome EXCEPT ![p] = end]

\* NewMigrator opens the database and creates schema_migrations if need be,
\* under the lock: it waits for a process that is migrating.
Build(p) ==
  /\ at[p] = "off"
  /\ "migrator" \in Constructed => lock = NoProc
  /\ \E wrong \in SUBSET Faults :
       IF wrong \cap UNION {Rejects(h) : h \in Constructed} = {}
         THEN Goes(p, "starting") /\ UNCHANGED outcome
         ELSE EndsWith(p, "exited", "config")
  /\ UNCHANGED <<dbVars, started>>

-----------------------------------------------------------------------------
(* Starting: fx calls the OnStart hooks one by one, each after those of    *)
(* what its constructor needs.  The first error ends the start, and the    *)
(* hooks that were started are stopped.                                    *)

MayStart(p, h) ==
  /\ at[p] = "starting"
  /\ h \in Constructed \ started[p]
  /\ Needs(h) \subseteq started[p]

Fails(p, end) == EndsWith(p, "stopping", end) /\ UNCHANGED started

Ping(p, h) ==
  /\ MayStart(p, h)
  /\ \/ started' = [started EXCEPT ![p] = @ \cup {h}] /\ UNCHANGED <<at, outcome>>
     \/ Fails(p, "failed")
  /\ UNCHANGED dbVars

PingPool(p) == Ping(p, "pool")
PingCache(p) == Ping(p, "cache")

Running(p) ==
  /\ at[p] = "starting"
  /\ started[p] = Constructed
  /\ Goes(p, "running")
  /\ UNCHANGED <<dbVars, started, outcome>>

\* Mutant: a dirty row is forced clean, and the start goes on.
CheckVersion_Forces(p) ==
  /\ MayStart(p, "migrator")
  /\ dirty' = IF lock = NoProc THEN FALSE ELSE dirty
  /\ Goes(p, "checked")
  /\ UNCHANGED <<version, lock, applied, started, outcome>>

\* Mutant: a dirty row is forced back, so that Up runs the migration again.
CheckVersion_ForcesBack(p) ==
  /\ MayStart(p, "migrator")
  /\ IF dirty /\ lock = NoProc
       THEN version' = version - 1 /\ dirty' = FALSE
       ELSE UNCHANGED <<version, dirty>>
  /\ Goes(p, "checked")
  /\ UNCHANGED <<lock, applied, started, outcome>>

\* Mutant: a start on a dirty row waits for the operator.
CheckVersion_Waits(p) ==
  /\ MayStart(p, "migrator")
  /\ ~ dirty
  /\ Goes(p, "checked")
  /\ UNCHANGED <<dbVars, started, outcome>>

\* RunMigrations reads the row before Up takes the lock: what it reads may be
\* the row of another process in the middle of a migration.
CheckVersion(p) ==
  /\ MayStart(p, "migrator")
  /\ \/ ~ dirty /\ Goes(p, "checked") /\ UNCHANGED <<started, outcome>>
     \/ dirty /\ Fails(p, "dirty")
     \/ Fails(p, "failed")
  /\ UNCHANGED dbVars

-----------------------------------------------------------------------------
(* Migrate.Up of golang-migrate, as RunMigrations calls it.                *)

Lock(p) ==
  /\ at[p] = "checked"
  /\ lock = NoProc
  /\ lock' = p
  /\ Goes(p, "locked")
  /\ UNCHANGED <<version, dirty, applied, started, outcome>>

\* migrate.DefaultLockTimeout, or the connection is lost.
LockTimesOut(p) ==
  /\ at[p] = "checked"
  /\ Fails(p, "failed")
  /\ UNCHANGED dbVars

\* Up and its error: every one but ErrNoChange fails the hook.
UpFails(p, end) ==
  /\ lock' = NoProc
  /\ Fails(p, end)

\* What Up still has to apply.
Pending(p) == {m \in Source(p) : m > version}

\* Up reads the row again, under the lock.  A version the source does not contain
\* is an error too.
Refuse(p) ==
  /\ at[p] = "locked"
  /\ dirty \/ version \notin Source(p) \cup {0}
  /\ UpFails(p, "refused")
  /\ UNCHANGED <<version, dirty, applied>>

Mark(p) ==
  /\ at[p] = "locked"
  /\ ~ dirty /\ version \in Source(p) \cup {0}
  /\ \E m \in Pending(p) : version' = m /\ \A l \in Pending(p) : m <= l
  /\ dirty' = TRUE
  /\ Goes(p, "marked")
  /\ UNCHANGED <<lock, applied, started, outcome>>

TakesEffect == applied' = [applied EXCEPT ![version] = @ + 1]

RunSQL(p) ==
  /\ at[p] = "marked"
  /\ TakesEffect
  /\ Goes(p, "ran")
  /\ UNCHANGED <<version, dirty, lock, started, outcome>>

Clear(p) ==
  /\ at[p] = "ran"
  /\ dirty' = FALSE
  /\ Goes(p, "locked")
  /\ UNCHANGED <<version, lock, applied, started, outcome>>

\* Migrations run as one statement: after an error it has taken effect or not.
MayTakeEffect(p) == UNCHANGED applied \/ (at[p] = "marked" /\ TakesEffect)

\* The SQL is wrong, or the connection is lost.
UpIsCut(p) ==
  /\ at[p] \in Migrating
  /\ UpFails(p, IF at[p] = "locked" THEN "failed" ELSE "cut")
  /\ MayTakeEffect(p)
  /\ UNCHANGED <<version, dirty>>

\* Nothing to do, or nothing any more: OnStart of the Migrator returns nil.
Migrated(p) ==
  /\ at[p] = "locked"
  /\ ~ dirty /\ version \in Source(p) /\ Pending(p) = {}
  /\ lock' = NoProc
  /\ Goes(p, "starting")
  /\ started' = [started EXCEPT ![p] = @ \cup {"migrator"}]
  /\ UNCHANGED <<version, dirty, applied, outcome>>

-----------------------------------------------------------------------------
(* Stopping.                                                               *)

Signal(p) ==
  /\ at[p] = "running"
  /\ EndsWith(p, "stopping", "stopped")
  /\ UNCHANGED <<dbVars, started>>

\* The reverse order.  An error of a Close does not keep fx from going on.
StopHook(p, h) ==
  /\ at[p] = "stopping"
  /\ h \in started[p]
  /\ \A g \in started[p] : h \notin Needs(g)
  /\ started' = [started EXCEPT ![p] = @ \ {h}]
  /\ UNCHANGED <<dbVars, at, outcome>>

CloseMigrator(p) == StopHook(p, "migrator")
ClosePool(p) == StopHook(p, "pool")
CloseCache(p) == StopHook(p, "cache")

Exit(p) ==
  /\ at[p] = "stopping"
  /\ started[p] = {}
  /\ Goes(p, "exited")
  /\ UNCHANGED <<dbVars, started, outcome>>

\* The process dies; or its start has taken fx.DefaultTimeout, and fx exits from
\* under RunMigrations, which does not look at the context.  The session ends,
\* and with it the lock.
Kill(p) ==
  /\ at[p] \notin {"off", "exited"}
  /\ EndsWith(p, "exited", IF at[p] \in {"marked", "ran"} THEN "cut" ELSE "failed")
  /\ started' = [started EXCEPT ![p] = {}]
  /\ lock' = IF lock = p THEN NoProc ELSE lock
  /\ MayTakeEffect(p)
  /\ UNCHANGED <<version, dirty>>

Before(m) == {l \in Recognised \cup {0} : l < m}

\* The operator looks at the schema and forces the row to what it contains: the
\* migration it names, or the one before it.
Repair ==
  /\ dirty /\ lock = NoProc
  /\ IF applied[version] = 1 THEN version' = version
     ELSE \E m \in Before(version) : version' = m /\ \A l \in Before(version) : l <= m
  /\ dirty' = FALSE
  /\ UNCHANGED <<lock, applied, procVars>>

-----------------------------------------------------------------------------
Process(p) ==
  \/ Running(p) \/ CheckVersion(p) \/ Lock(p) \/ LockTimesOut(p)
  \/ Refuse(p) \/ Mark(p) \/ RunSQL(p) \/ Clear(p) \/ UpIsCut(p) \/ Migrated(p)
  \/ PingPool(p) \/ PingCache(p)
  \/ CloseMigrator(p) \/ ClosePool(p) \/ CloseCache(p) \/ Exit(p)

StoreNext ==
  \/ \E p \in Procs : Build(p) \/ Process(p) \/ Signal(p) \/ Kill(p)
  \/ Repair

StoreSafety == StoreInit /\ [][StoreNext]_storeVars

\* A process that has been started is scheduled, and PostgreSQL answers every
\* statement, for better or worse.  Nobody owes the database a repair.
StoreSpec == StoreSafety /\ \A p \in Procs : WF_storeVars(Process(p))

-----------------------------------------------------------------------------
(* Properties.                                                             *)

\* Whatever crashes between two steps of a migration, the row tells the truth as
\* far as it can, of the migrations golang-migrate recognises: below `version' they
\* are applied, above it they are not, and `version' itself is unless the row is
\* dirty (migrations.go:74-77).
RecordMatchesSchema ==
  \A m \in Recognised :
    /\ m < version => applied[m] = 1
    /\ m > version => applied[m] = 0
    /\ m = version /\ ~ dirty => applied[m] = 1

\* "so migrations run before the connection pool starts serving application queries"
\* (module.go:12-13): while the pool of a process is up, the schema has all the
\* migrations its source offered, wherever other processes and crashes have left it.
ServesItsSchema ==
  \A p \in Procs : "pool" \in started[p] => \A m \in Source(p) : applied[m] = 1

\* "golang-migrate reads the embedded FS and applies all pending migrations in
\* version order, before any other component is available" (migrations.go:4-5): the
\* same of all the migrations embedded in its binary.
EmbeddedIsApplied ==
  \A p \in Procs : "pool" \in started[p] =>
    \A m \in Migrations : m <= Image[p] => applied[m] = 1

\* All processes together, with their crashes and the operator's repairs, apply no
\* migration twice and none out of order.
ImplementsHistory == HistorySpec

\* A process that starts comes to run or exits, though others hold the lock, die
\* with it or leave the row dirty for good.
StartSettles ==
  \A p \in Procs : at[p] \notin {"off", "running"} ~> at[p] \in {"running", "exited"}

\* "A dirty database (failed mid-migration) causes an error so the operator can
\* intervene manually" (migrations.go:76-77): a start only fails for a dirty row
\* when a migration has been cut short.
DirtyMeansFailed ==
  \A p \in Procs : outcome[p] = "dirty" => \E q \in Procs : outcome[q] = "cut"
=============================================================================
