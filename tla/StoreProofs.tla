------------------------------ MODULE StoreProofs ------------------------------
(***************************************************************************)
(* Theorems about StoreStart: any number of processes, of images and of    *)
(* migrations, whichever providers the application asks for.               *)
(***************************************************************************)
EXTENDS StoreStart, TLAPS

USE RecognisedAssumption DEF Migrations, Migrating, Source

\* What a process knows of the migration it is in the middle of.
MidMigration ==
  /\ dirty => version \in Recognised
  /\ \A p \in Procs :
       /\ at[p] = "marked" => dirty /\ applied[version] = 0
       /\ at[p] = "ran" => dirty /\ applied[version] = 1

\* What is up in a process stays true of the schema.
UpOnSchema ==
  \A p \in Procs :
    /\ "pool" \in started[p] => "migrator" \in started[p]
    /\ "migrator" \in started[p] => \A m \in Source(p) : applied[m] = 1

StoreInv == StoreTypeOK /\ RecordMatchesSchema /\ MidMigration /\ UpOnSchema

-----------------------------------------------------------------------------
\* The hooks other than that of the Migrator, told apart by their names only.
LEMMA HookSteps ==
  ASSUME NEW p \in Procs,
         PingPool(p) \/ PingCache(p) \/ CloseMigrator(p) \/ ClosePool(p) \/ CloseCache(p)
  PROVE  \/ \E h \in {"pool", "cache"} : Ping(p, h)
         \/ \E h \in Hooks : StopHook(p, h)
BY DEF PingPool, PingCache, CloseMigrator, ClosePool, CloseCache, Hooks

\* The only ways the schema changes: not at all, or by the marked migration.
LEMMA SchemaSteps ==
  ASSUME StoreTypeOK, MidMigration,
         StoreNext \/ UNCHANGED storeVars
  PROVE  \/ UNCHANGED applied
         \/ \E p \in Procs : at[p] = "marked" /\ TakesEffect
<1>1. ASSUME NEW p \in Procs, Build(p) \/ Process(p) \/ Signal(p) \/ Kill(p)
      PROVE  UNCHANGED applied \/ (at[p] = "marked" /\ TakesEffect)
  <2>1. CASE RunSQL(p)
    BY <2>1 DEF RunSQL
  <2>2. CASE UpIsCut(p) \/ Kill(p)
    BY <2>2 DEF UpIsCut, Kill, MayTakeEffect
  <2>3. CASE Build(p) \/ Signal(p) \/ Running(p) \/ CheckVersion(p) \/ Lock(p)
               \/ LockTimesOut(p) \/ Refuse(p) \/ Mark(p) \/ Clear(p) \/ Migrated(p)
               \/ Exit(p) \/ (\E h \in Hooks : Ping(p, h) \/ StopHook(p, h))
    BY <2>3 DEF Build, Signal, Running, CheckVersion, Lock, LockTimesOut, Refuse, Mark,
                Clear, Migrated, Exit, Ping, StopHook, dbVars
  <2> QED
    BY <1>1, <2>1, <2>2, <2>3, HookSteps DEF Process, Hooks
<1>2. CASE Repair
  BY <1>2 DEF Repair
<1>3. CASE UNCHANGED storeVars
  BY <1>3 DEF storeVars, dbVars
<1> QED
  BY <1>1, <1>2, <1>3 DEF StoreNext

\* A marked migration takes effect once and after all before it.
LEMMA EffectIsNext ==
  ASSUME StoreTypeOK, RecordMatchesSchema, MidMigration,
         NEW p \in Procs, at[p] = "marked", TakesEffect
  PROVE  /\ version \in Recognised
         /\ applied[version] = 0
         /\ ApplyNext(version)
<1>1. version \in Recognised /\ applied[version] = 0
  BY DEF MidMigration
<1>2. \A l \in Recognised : l < version => applied[l] = 1
  BY DEF RecordMatchesSchema
<1>3. applied' = [applied EXCEPT ![version] = 1]
  BY <1>1 DEF TakesEffect, StoreTypeOK
<1> QED
  BY <1>1, <1>2, <1>3 DEF ApplyNext

-----------------------------------------------------------------------------
(* The invariant.                                                          *)

LEMMA StoreInitInv == StoreInit => StoreInv
<1> SUFFICES ASSUME StoreInit PROVE StoreInv
  OBVIOUS
<1>2. \A p \in Procs : at[p] = "off" /\ started[p] = {} /\ outcome[p] = "none" /\ lock # p
  BY StoreAssumption DEF StoreInit
<1>3. StoreTypeOK
  BY <1>2 DEF StoreInit, HistoryInit, StoreTypeOK, Ends
<1>4. RecordMatchesSchema
  BY LastAssumption DEF StoreInit, HistoryInit, RecordMatchesSchema
<1> QED
  BY <1>2, <1>3, <1>4 DEF StoreInit, StoreInv, MidMigration, UpOnSchema

LEMMA StoreTypeStep ==
  ASSUME StoreInv, StoreNext \/ UNCHANGED storeVars
  PROVE  StoreTypeOK'
<1> USE DEF StoreInv, StoreTypeOK, Ends, dbVars, procVars, Goes, EndsWith, Fails
<1>0. applied' \in [Migrations -> {0, 1}]
  <2>1. CASE UNCHANGED applied
    BY <2>1
  <2>2. ASSUME NEW p \in Procs, at[p] = "marked", TakesEffect
        PROVE  applied' \in [Migrations -> {0, 1}]
    BY <2>2, EffectIsNext DEF ApplyNext
  <2> QED
    BY <2>1, <2>2, SchemaSteps
<1>1. ASSUME NEW p \in Procs, Build(p) PROVE StoreTypeOK'
  BY <1>0, <1>1 DEF Build
<1>2. ASSUME NEW p \in Procs, Running(p) \/ CheckVersion(p) \/ LockTimesOut(p) \/ Signal(p)
                              \/ Exit(p)
      PROVE  StoreTypeOK'
  BY <1>0, <1>2 DEF Running, CheckVersion, LockTimesOut, Signal, Exit, MayStart
<1>3. ASSUME NEW p \in Procs, Lock(p) PROVE StoreTypeOK'
  BY <1>0, <1>3, StoreAssumption DEF Lock
<1>4. ASSUME NEW p \in Procs, RunSQL(p) \/ Clear(p) PROVE StoreTypeOK'
  BY <1>0, <1>4 DEF RunSQL, Clear
<1>5. ASSUME NEW p \in Procs, Mark(p) PROVE StoreTypeOK'
  <2>1. version' \in Recognised
    BY <1>5 DEF Mark, Pending
  <2> QED
    BY <1>0, <1>5, <2>1 DEF Mark
<1>6. ASSUME NEW p \in Procs, Refuse(p) \/ UpIsCut(p) \/ Migrated(p) PROVE StoreTypeOK'
  <2>1. at[p] \in Migrating /\ lock = p /\ lock' = NoProc
    BY <1>6 DEF Refuse, UpIsCut, UpFails, Migrated
  <2>2. /\ started' \in [Procs -> SUBSET Hooks]
        /\ outcome' \in [Procs -> Ends]
        /\ UNCHANGED <<version, dirty>>
    BY <1>6 DEF Refuse, UpIsCut, UpFails, Migrated, Hooks
  <2>3. \/ at' = [at EXCEPT ![p] = "starting"]
        \/ at' = [at EXCEPT ![p] = "stopping"]
    BY <1>6 DEF Refuse, UpIsCut, UpFails, Migrated
  <2>4. \A q \in Procs : at'[q] \in Migrating <=> lock' = q
    BY <2>1, <2>3, StoreAssumption
  <2> QED
    BY <1>0, <2>1, <2>2, <2>3, <2>4
<1>7. ASSUME NEW p \in Procs, NEW h \in Hooks, Ping(p, h) \/ StopHook(p, h)
      PROVE  StoreTypeOK'
  BY <1>0, <1>7 DEF Ping, StopHook, MayStart
<1>8. ASSUME NEW p \in Procs, Kill(p) PROVE StoreTypeOK'
  <2>1. \A q \in Procs : at'[q] \in Migrating <=> lock' = q
    BY <1>8, StoreAssumption DEF Kill
  <2> QED
    BY <1>0, <1>8, <2>1 DEF Kill
<1>9. CASE Repair
  <2>1. version' \in Recognised \cup {0}
    BY <1>9 DEF Repair, Before
  <2> QED
    BY <1>0, <1>9, <2>1 DEF Repair
<1>10. CASE UNCHANGED storeVars
  BY <1>10 DEF storeVars
<1> QED
  BY <1>1, <1>2, <1>3, <1>4, <1>5, <1>6, <1>7, <1>8, <1>9, <1>10, HookSteps
    DEF StoreNext, Process, Hooks

\* The record and the migration in progress, where the row changes.
LEMMA RecordStep ==
  ASSUME StoreInv, StoreNext \/ UNCHANGED storeVars
  PROVE  RecordMatchesSchema' /\ MidMigration'
<1> USE DEF StoreInv, RecordMatchesSchema, MidMigration
<1>1. ASSUME NEW p \in Procs, at[p] = "marked", TakesEffect, UNCHANGED <<version, dirty>>
      PROVE  RecordMatchesSchema' /\ applied'[version] = 1
  <2>1. /\ version \in Recognised
        /\ applied' = [applied EXCEPT ![version] = 1]
    BY <1>1, EffectIsNext DEF ApplyNext
  <2> QED
    BY <1>1, <2>1 DEF StoreTypeOK
<1>2. \A p, q \in Procs : at[p] \in Migrating /\ at[q] \in Migrating => p = q
  BY DEF StoreTypeOK
<1>3. ASSUME UNCHANGED <<version, dirty, applied>>,
             \A p \in Procs : at'[p] \in {"marked", "ran"} => at'[p] = at[p]
      PROVE  RecordMatchesSchema' /\ MidMigration'
  BY <1>3
<1>4. ASSUME NEW p \in Procs,
             Build(p) \/ Running(p) \/ CheckVersion(p) \/ Lock(p) \/ LockTimesOut(p)
               \/ Refuse(p) \/ Migrated(p) \/ Exit(p) \/ Signal(p)
               \/ \E h \in Hooks : Ping(p, h) \/ StopHook(p, h)
      PROVE  RecordMatchesSchema' /\ MidMigration'
  BY <1>3, <1>4 DEF StoreTypeOK, Build, Running, CheckVersion, Lock, LockTimesOut, Refuse,
    Migrated, Exit, Signal, Ping, StopHook, UpFails, Fails, EndsWith, Goes, dbVars
<1>5. ASSUME NEW p \in Procs, Mark(p) PROVE RecordMatchesSchema' /\ MidMigration'
  <2>1. /\ version' \in Pending(p)
        /\ \A l \in Pending(p) : version' <= l
        /\ ~ dirty /\ dirty' /\ UNCHANGED applied
    BY <1>5 DEF Mark
  <2>2. version' \in Recognised /\ version' > version /\ version' <= Image[p]
    BY <2>1 DEF Pending
  <2>3. /\ version' \in Nat /\ version \in Nat /\ Image[p] \in Nat
        /\ \A m \in Recognised : m \in Nat
    BY <2>2, StoreAssumption, LastAssumption DEF StoreTypeOK
  <2>4. ASSUME NEW m \in Recognised, m < version' PROVE m <= version
    <3>1. CASE m > version
      <4>1. m <= Image[p]
        BY <2>2, <2>3, <2>4
      <4>2. m \in Pending(p)
        BY <3>1, <4>1 DEF Pending
      <4> QED
        BY <2>1, <2>3, <2>4, <4>2
    <3> QED
      BY <2>3, <3>1
  <2>5. RecordMatchesSchema' /\ applied[version'] = 0
    <3>1. ASSUME NEW m \in Recognised
          PROVE  /\ m < version' => applied[m] = 1
                 /\ m >= version' => applied[m] = 0
      <4>1. CASE m < version'
        <5>1. m <= version /\ m \in Nat /\ version \in Nat
          BY <2>3, <2>4, <4>1
        <5>2. applied[m] = 1
          BY <2>1, <5>1
        <5> QED
          BY <2>3, <4>1, <5>2
      <4>2. CASE m >= version'
        BY <2>1, <2>2, <2>3, <4>2
      <4> QED
        BY <2>3, <4>1, <4>2
    <3> QED
      BY <2>1, <2>2, <2>3, <3>1
  <2>6. \A q \in Procs : at'[q] \in {"marked", "ran"} => q = p /\ at'[q] = "marked"
    BY <1>2, <1>5 DEF Mark, Goes, StoreTypeOK
  <2> QED
    BY <1>5, <2>2, <2>5, <2>6 DEF Mark
<1>6. ASSUME NEW p \in Procs, RunSQL(p) PROVE RecordMatchesSchema' /\ MidMigration'
  <2>1. RecordMatchesSchema' /\ applied'[version] = 1
    BY <1>1, <1>6 DEF RunSQL
  <2>2. \A q \in Procs : at'[q] \in {"marked", "ran"} => q = p /\ at'[q] = "ran"
    BY <1>2, <1>6 DEF RunSQL, Goes, StoreTypeOK
  <2> QED
    BY <1>6, <2>1, <2>2 DEF RunSQL
<1>7. ASSUME NEW p \in Procs, Clear(p) PROVE RecordMatchesSchema' /\ MidMigration'
  <2>1. \A q \in Procs : at'[q] \notin {"marked", "ran"}
    BY <1>2, <1>7 DEF Clear, Goes, StoreTypeOK
  <2> QED
    BY <1>7, <2>1 DEF Clear
<1>8. ASSUME NEW p \in Procs, UpIsCut(p) \/ Kill(p)
      PROVE  RecordMatchesSchema' /\ MidMigration'
  <2>1. UNCHANGED <<version, dirty>> /\ MayTakeEffect(p)
    BY <1>8 DEF UpIsCut, Kill
  <2>2. /\ at'[p] \notin {"marked", "ran"}
        /\ \A q \in Procs \ {p} : at'[q] = at[q]
    BY <1>8 DEF UpIsCut, Kill, UpFails, Fails, EndsWith, Goes, StoreTypeOK
  <2>3. CASE UNCHANGED applied
    BY <1>3, <2>1, <2>2, <2>3
  <2>4. CASE at[p] = "marked" /\ TakesEffect
    <3>1. \A q \in Procs : at'[q] \notin {"marked", "ran"}
      BY <1>2, <2>2, <2>4
    <3> QED
      BY <1>1, <2>1, <2>4, <3>1
  <2> QED
    BY <2>1, <2>3, <2>4 DEF MayTakeEffect
<1>9. CASE Repair
  <2>1. version \in Recognised /\ dirty' = FALSE /\ UNCHANGED <<applied, at>>
    BY <1>9 DEF Repair, procVars
  <2>2. \A q \in Procs : at[q] \notin {"marked", "ran"}
    BY <1>9, StoreAssumption DEF Repair, StoreTypeOK
  <2>3. applied[version] \in {0, 1}
    BY <2>1 DEF StoreTypeOK
  <2>4. CASE applied[version] = 1 /\ version' = version
    BY <2>1, <2>2, <2>4
  <2>5. CASE applied[version] # 1
    <3>1. /\ version' \in Before(version)
          /\ \A l \in Before(version) : l <= version'
      BY <1>9, <2>5 DEF Repair
    <3>2. /\ version' < version /\ version' \in Nat /\ version \in Nat
          /\ \A m \in Recognised : m \in Nat
      BY <2>1, <3>1, LastAssumption DEF Before
    <3>3. \A m \in Recognised : m > version' => m >= version
      BY <3>1, <3>2 DEF Before
    <3>4. RecordMatchesSchema'
      BY <2>1, <2>3, <2>5, <3>2, <3>3
    <3> QED
      BY <2>1, <2>2, <3>4
  <2> QED
    BY <1>9, <2>4, <2>5 DEF Repair
<1>10. CASE UNCHANGED storeVars
  BY <1>3, <1>10 DEF storeVars, dbVars, procVars
<1> QED
  BY <1>4, <1>5, <1>6, <1>7, <1>8, <1>9, <1>10, HookSteps DEF StoreNext, Process, Hooks

LEMMA UpOnSchemaStep ==
  ASSUME StoreInv, StoreNext \/ UNCHANGED storeVars
  PROVE  UpOnSchema'
<1> USE DEF StoreInv, UpOnSchema
<1>1. \A m \in Migrations : applied[m] = 1 => applied'[m] = 1
  <2>1. CASE UNCHANGED applied
    BY <2>1
  <2>2. ASSUME NEW p \in Procs, at[p] = "marked", TakesEffect
        PROVE  \A m \in Migrations : applied[m] = 1 => applied'[m] = 1
    BY <2>2, EffectIsNext DEF ApplyNext, StoreTypeOK
  <2> QED
    BY <2>1, <2>2, SchemaSteps
<1>2. ASSUME NEW p \in Procs, started' = [started EXCEPT ![p] = {}] PROVE UpOnSchema'
  BY <1>1, <1>2 DEF StoreTypeOK
<1>3. CASE UNCHANGED started
  BY <1>1, <1>3
<1>4. ASSUME NEW p \in Procs, Migrated(p) PROVE UpOnSchema'
  <2>1. started' = [started EXCEPT ![p] = @ \cup {"migrator"}] /\ UNCHANGED applied
    BY <1>4 DEF Migrated
  <2>2. /\ ~ dirty /\ version \in Source(p)
        /\ \A m \in Source(p) : m <= version
    <3>1. \A m \in Source(p) : ~ m > version
      BY <1>4 DEF Migrated, Pending
    <3> QED
      BY <1>4, <3>1, LastAssumption DEF Migrated
  <2>3. \A m \in Source(p) : applied[m] = 1
    BY <2>2, LastAssumption DEF RecordMatchesSchema
  <2> QED
    BY <2>1, <2>3 DEF StoreTypeOK
<1>5. ASSUME NEW p \in Procs, NEW h \in {"pool", "cache"}, Ping(p, h) PROVE UpOnSchema'
  <2>1. CASE UNCHANGED started
    BY <1>3, <2>1
  <2>2. CASE started' = [started EXCEPT ![p] = @ \cup {h}]
    <3>1. h = "pool" => "migrator" \in started[p]
      BY <1>5 DEF Ping, MayStart, Needs
    <3> QED
      BY <1>1, <2>2, <3>1 DEF StoreTypeOK
  <2> QED
    BY <1>5, <2>1, <2>2 DEF Ping, Fails
<1>6. ASSUME NEW p \in Procs, NEW h \in Hooks, StopHook(p, h) PROVE UpOnSchema'
  <2>1. started' = [started EXCEPT ![p] = @ \ {h}]
    BY <1>6 DEF StopHook
  <2>2. h = "migrator" => "pool" \notin started[p]
    BY <1>6 DEF StopHook, Needs
  <2> QED
    BY <1>1, <2>1, <2>2 DEF StoreTypeOK
<1>7. ASSUME NEW p \in Procs,
             Build(p) \/ Running(p) \/ CheckVersion(p) \/ Lock(p) \/ LockTimesOut(p)
               \/ Refuse(p) \/ Mark(p) \/ RunSQL(p) \/ Clear(p) \/ UpIsCut(p) \/ Exit(p)
               \/ Signal(p)
      PROVE  UNCHANGED started
  BY <1>7 DEF Build, Running, CheckVersion, Lock, LockTimesOut, Refuse, Mark, RunSQL, Clear,
    UpIsCut, Exit, Signal, UpFails, Fails, EndsWith
<1>8. ASSUME NEW p \in Procs, Kill(p) PROVE UpOnSchema'
  BY <1>2, <1>8 DEF Kill
<1>9. CASE Repair \/ UNCHANGED storeVars
  BY <1>3, <1>9 DEF Repair, storeVars, procVars
<1> QED
  BY <1>3, <1>4, <1>5, <1>6, <1>7, <1>8, <1>9, HookSteps DEF StoreNext, Process

LEMMA StoreInvStep == StoreInv /\ [StoreNext]_storeVars => StoreInv'
BY StoreTypeStep, RecordStep, UpOnSchemaStep DEF StoreInv

LEMMA StoreInvariant == StoreSafety => []StoreInv
BY StoreInitInv, StoreInvStep, PTL DEF StoreSafety

-----------------------------------------------------------------------------
(* Theorems.                                                               *)

\* The lock and the processes agree on who is migrating, among other things.
THEOREM StoreTypeCorrect == StoreSafety => []StoreTypeOK
<1>1. StoreInv => StoreTypeOK
  BY DEF StoreInv
<1> QED
  BY <1>1, StoreInvariant, PTL

\* Wherever processes are killed, the row and the schema only differ as dirty says.
THEOREM RecordIsTrue == StoreSafety => []RecordMatchesSchema
<1>1. StoreInv => RecordMatchesSchema
  BY DEF StoreInv
<1> QED
  BY <1>1, StoreInvariant, PTL

\* No pool is up on a schema that lacks a migration its source offered.
THEOREM PoolsFindTheirSchema == StoreSafety => []ServesItsSchema
<1>1. StoreInv => ServesItsSchema
  BY DEF StoreInv, UpOnSchema, ServesItsSchema
<1> QED
  BY <1>1, StoreInvariant, PTL

\* Processes, crashes and repairs implement SchemaHistory.
THEOREM SchemaHistoryRefined == StoreSafety => ImplementsHistory
<1>1. StoreInit => HistoryInit
  BY DEF StoreInit
<1>2. StoreInv /\ [StoreNext]_storeVars => [HistoryNext]_applied
  <2> SUFFICES ASSUME StoreInv, [StoreNext]_storeVars PROVE [HistoryNext]_applied
    OBVIOUS
  <2>1. CASE UNCHANGED applied
    BY <2>1
  <2>2. ASSUME NEW p \in Procs, at[p] = "marked", TakesEffect PROVE HistoryNext
    BY <2>2, EffectIsNext DEF StoreInv, HistoryNext
  <2> QED
    BY <2>1, <2>2, SchemaSteps DEF StoreInv
<1> QED
  BY <1>1, <1>2, StoreInvariant, PTL DEF StoreSafety, ImplementsHistory, HistorySpec
=============================================================================
