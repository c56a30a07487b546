----------------------------- MODULE SchemaHistory -----------------------------
(***************************************************************************)
(* What the comments of kd-store's migrations.go promise of the history of *)
(* the schema: migrations are applied "in version order" (line 5), and one *)
(* that was applied is never applied again ("idempotent", line 75),        *)
(* however many processes start on the database.                           *)
(*                                                                         *)
(* Migration n is the file numbered n - 1 of those that are ever embedded  *)
(* (lines 23-24), so that version 0 stands for migrate.ErrNilVersion: no   *)
(* migration applied yet.  Recognised are those whose names the iofs       *)
(* source of golang-migrate (line 125) reads as <version>_<title>.up.sql;  *)
(* it passes the others over in silence.                                   *)
(***************************************************************************)
EXTENDS Naturals

CONSTANTS
  Last,         \* the newest migration that exists
  Recognised    \* those that golang-migrate can see

ASSUME LastAssumption == Last \in Nat

Migrations == 1 .. Last

ASSUME RecognisedAssumption == Recognised \subseteq Migrations

VARIABLE applied   \* how many times the SQL of each migration has taken effect

HistoryInit == applied = [m \in Migrations |-> 0]

ApplyNext(m) ==
  /\ applied[m] = 0
  /\ \A l \in Recognised : l < m => applied[l] = 1
  /\ applied' = [applied EXCEPT ![m] = 1]

HistoryNext == \E m \in Recognised : ApplyNext(m)

HistorySpec == HistoryInit /\ [][HistoryNext]_applied
=============================================================================
