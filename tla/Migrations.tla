------------------------------- MODULE Migrations -------------------------------
(***************************************************************************)
(* Migrator of packages/core/src/db-migrations.ts over a DbAdapter: calls  *)
(* of migrate and rollbackLast by several processes.                       *)
(*                                                                         *)
(* A "sql" database keeps the adapter's contract: a transaction takes      *)
(* effect as a whole, and the version is the primary key of the            *)
(* migrations table.  The "memory" one is InMemoryDbAdapter of             *)
(* db-adapter.ts, which has neither.                                       *)
(***************************************************************************)
EXTENDS Integers, Sequences, SequencesExt

CONSTANTS Migrators,    \* concurrent calls
          MigrationVersions,     \* 1..MigrationVersions are the registered versions, in order
          Reversible,   \* the versions that have down SQL
          Databases,    \* subset of {"sql", "memory"}
          MaxMigrations      \* bound on the calls

ASSUME MigrationAssumption == /\ MigrationVersions \in Nat /\ MaxMigrations \in Nat
                              /\ Reversible \subseteq 1..MigrationVersions
                              /\ Databases \subseteq {"sql", "memory"}

VARIABLES mgDb,       \* which database this is
          mgRows,     \* the recorded versions, in the order they were recorded
          mgUp,       \* history: how often each version's up SQL took effect
          mgDown,     \* history: likewise for its down SQL
          mgCall,     \* where each call is
          mgCalls,
          mgShared,   \* history: versions two rollbacks had read as the last one
          mgCrossed   \* history: whether a rollback and a migrate overlapped

mgVars == <<mgDb, mgRows, mgUp, mgDown, mgCall, mgCalls, mgShared, mgCrossed>>

Registered == 1..MigrationVersions
MgIdle == [does |-> "nothing"]
InTable == Range(mgRows)

MgInit == /\ mgDb \in Databases
          /\ mgRows = <<>>
          /\ mgUp = [v \in Registered |-> 0] /\ mgDown = [v \in Registered |-> 0]
          /\ mgCall = [c \in Migrators |-> MgIdle]
          /\ mgCalls = 0
          /\ mgShared = {} /\ mgCrossed = FALSE

MgDoes(c, what) == mgCall[c].does = what
MgGoto(c, state) == mgCall' = [mgCall EXCEPT ![c] = state]

Migrates(call) == call.does \in {"getPending", "migrate", "succeeded"}

(* What others change under a migrate that is under way; history. *)
Disturbed(call) == IF Migrates(call) THEN [call EXCEPT !.disturbed = TRUE] ELSE call

-----------------------------------------------------------------------------
(* migrate.  CREATE TABLE IF NOT EXISTS empties the table of the memory
   adapter. *)
InitTable(c) ==
  /\ MgDoes(c, "nothing") /\ mgCalls < MaxMigrations
  /\ mgCalls' = mgCalls + 1
  /\ mgRows' = IF mgDb = "memory" THEN <<>> ELSE mgRows
  /\ mgCall' = [d \in Migrators |-> IF d = c THEN [does |-> "getPending", disturbed |-> FALSE]
                                    ELSE IF mgDb = "memory" THEN Disturbed(mgCall[d]) ELSE mgCall[d]]
  /\ UNCHANGED <<mgDb, mgUp, mgDown, mgShared, mgCrossed>>

GetPending(c) ==
  /\ MgDoes(c, "getPending")
  /\ MgGoto(c, [does |-> "migrate", disturbed |-> mgCall[c].disturbed, applied |-> {},
                pending |-> Registered \ InTable, ran |-> FALSE])
  /\ UNCHANGED <<mgDb, mgRows, mgUp, mgDown, mgCalls, mgShared, mgCrossed>>

(* Pending migrations are run in the order of their versions. *)
Least(versions) == CHOOSE v \in versions : \A w \in versions : v <= w
NextPending(c) == Least(mgCall[c].pending)

HasPending(c) == MgDoes(c, "migrate") /\ mgCall[c].pending # {}

AppliedOne(c) == [mgCall[c] EXCEPT !.pending = @ \ {NextPending(c)}, !.applied = @ \cup {NextPending(c)},
                                   !.ran = FALSE]

(* A mistake in MayRecord. *)
RecordsAnew(v) == TRUE

(* The version is the primary key. *)
MayRecord(v) == v \notin InTable

(* sql: the up SQL and its record commit together. *)
ApplyMigration(c) ==
  /\ HasPending(c) /\ mgDb = "sql"
  /\ MayRecord(NextPending(c))
  /\ mgUp' = [mgUp EXCEPT ![NextPending(c)] = @ + 1]
  /\ mgRows' = Append(mgRows, NextPending(c))
  /\ MgGoto(c, AppliedOne(c))
  /\ mgCrossed' = (mgCrossed \/ \E d \in Migrators : MgDoes(d, "rollback"))
  /\ UNCHANGED <<mgDb, mgDown, mgCalls, mgShared>>

(* memory: one statement after the other, in no transaction. *)
RunUp(c) ==
  /\ HasPending(c) /\ mgDb = "memory" /\ ~mgCall[c].ran
  /\ mgUp' = [mgUp EXCEPT ![NextPending(c)] = @ + 1]
  /\ MgGoto(c, [mgCall[c] EXCEPT !.ran = TRUE])
  /\ UNCHANGED <<mgDb, mgRows, mgDown, mgCalls, mgShared, mgCrossed>>

RecordUp(c) ==
  /\ HasPending(c) /\ mgDb = "memory" /\ mgCall[c].ran
  /\ mgRows' = Append(mgRows, NextPending(c))
  /\ MgGoto(c, AppliedOne(c))
  /\ UNCHANGED <<mgDb, mgUp, mgDown, mgCalls, mgShared, mgCrossed>>

(* The migration's SQL fails, or its version is recorded by now: what comes
   after it is left pending. *)
MigrateFails(c) ==
  /\ HasPending(c)
  /\ MgGoto(c, [does |-> "failed", applied |-> mgCall[c].applied, pending |-> mgCall[c].pending])
  /\ UNCHANGED <<mgDb, mgRows, mgUp, mgDown, mgCalls, mgShared, mgCrossed>>

MigrateSucceeds(c) ==
  /\ MgDoes(c, "migrate") /\ mgCall[c].pending = {}
  /\ MgGoto(c, [does |-> "succeeded", rows |-> InTable, disturbed |-> mgCall[c].disturbed])
  /\ UNCHANGED <<mgDb, mgRows, mgUp, mgDown, mgCalls, mgShared, mgCrossed>>

-----------------------------------------------------------------------------
(* rollbackLast.  ORDER BY version is not looked at by the memory adapter. *)

LastApplied == IF mgDb = "memory" THEN Last(mgRows)
               ELSE CHOOSE v \in InTable : \A w \in InTable : w <= v

RollingBack(v) == {c \in Migrators : MgDoes(c, "rollback") /\ mgCall[c].version = v}

ReadLast(c) ==
  /\ MgDoes(c, "nothing") /\ mgCalls < MaxMigrations
  /\ mgRows # <<>> /\ LastApplied \in Reversible
  /\ mgCalls' = mgCalls + 1
  /\ MgGoto(c, [does |-> "rollback", version |-> LastApplied, latest |-> Last(mgRows)])
  /\ mgShared' = IF RollingBack(LastApplied) = {} THEN mgShared ELSE mgShared \cup {LastApplied}
  /\ UNCHANGED <<mgDb, mgRows, mgUp, mgDown, mgCrossed>>

Unrecorded(rows, v) == IF \E i \in DOMAIN rows : rows[i] = v
                    THEN RemoveAt(rows, CHOOSE i \in DOMAIN rows : rows[i] = v) ELSE rows

(* DELETE finds the row or not; the memory adapter does not know it. *)
Rollback(c) ==
  /\ MgDoes(c, "rollback")
  /\ mgDown' = [mgDown EXCEPT ![mgCall[c].version] = @ + 1]
  /\ mgRows' = IF mgDb = "memory" THEN mgRows
               ELSE Unrecorded(mgRows, mgCall[c].version)
  /\ mgCall' = [d \in Migrators |-> IF d = c THEN [does |-> "rolledBack"] ELSE Disturbed(mgCall[d])]
  /\ mgCrossed' = (mgCrossed \/ \E d \in Migrators : Migrates(mgCall[d]))
  /\ UNCHANGED <<mgDb, mgUp, mgCalls, mgShared>>

RollbackFails(c) ==
  /\ MgDoes(c, "rollback")
  /\ MgGoto(c, [does |-> "rollbackFailed"])
  /\ UNCHANGED <<mgDb, mgRows, mgUp, mgDown, mgCalls, mgShared, mgCrossed>>

(* The caller has its answer and may call again. *)
MgForget(c) ==
  /\ mgCall[c].does \in {"failed", "succeeded", "rolledBack", "rollbackFailed"}
  /\ MgGoto(c, MgIdle)
  /\ UNCHANGED <<mgDb, mgRows, mgUp, mgDown, mgCalls, mgShared, mgCrossed>>

MgNext == \E c \in Migrators :
            \/ InitTable(c) \/ GetPending(c) \/ ApplyMigration(c) \/ RunUp(c) \/ RecordUp(c)
            \/ MigrateFails(c) \/ MigrateSucceeds(c)
            \/ ReadLast(c) \/ Rollback(c) \/ RollbackFails(c) \/ MgForget(c)

MgSpec == MgInit /\ [][MgNext]_mgVars

MgTypeOK == /\ mgCrossed \in BOOLEAN
            /\ mgRows \in Seq(Registered)
            /\ mgUp \in [Registered -> Nat] /\ mgDown \in [Registered -> Nat]
            /\ mgCalls \in 0..MaxMigrations

-----------------------------------------------------------------------------
(* However calls overlap, a version is recorded exactly when its SQL is in
   effect, once; only two rollbacks that read the same last version undo it
   twice. *)
SchemaIsRecorded ==
  mgDb = "sql" =>
    \A v \in Registered \ mgShared :
      mgUp[v] - mgDown[v] = IF v \in InTable THEN 1 ELSE 0

(* A migrate that succeeds leaves every registered version recorded, unless a
   rollback came in between or, in memory, another migrate emptied the table. *)
SuccessIsComplete ==
  \A c \in Migrators : MgDoes(c, "succeeded") /\ ~mgCall[c].disturbed =>
                         mgCall[c].rows = Registered

(* Whoever is told of a failure is told all that is left to do. *)
FailureIsAccounted ==
  \A c \in Migrators : MgDoes(c, "failed") =>
    /\ \A v \in mgCall[c].applied, w \in mgCall[c].pending : v < w
    /\ \A v \in Registered : v \in mgCall[c].applied \cup mgCall[c].pending \/ mgUp[v] > 0

(* MigrationVersions are recorded in their order, whichever calls overlap and fail, so
   that what a rollback takes back is what was applied last; only a rollback
   that overlaps a migrate lets a version be applied before a lower one. *)
RollbackUndoesTheLatest ==
  mgDb = "sql" /\ ~mgCrossed =>
    /\ \A i, j \in DOMAIN mgRows : i < j => mgRows[i] < mgRows[j]
    /\ \A c \in Migrators : MgDoes(c, "rollback") => mgCall[c].version = mgCall[c].latest

(* The migrations table tells the schema. *)
MigrationsSound == /\ SchemaIsRecorded /\ SuccessIsComplete
                   /\ FailureIsAccounted /\ RollbackUndoesTheLatest
=============================================================================
