----------------------------- MODULE Migrations ------------------------------
(***************************************************************************)
(* internal/storage/migrations.go and the SQL scripts it embeds: at every  *)
(* start the scripts above the recorded version are executed, statement by *)
(* statement.  Nothing puts a script into a transaction, so the process    *)
(* may die, or a statement may fail, between any two of them.              *)
(***************************************************************************)
EXTENDS Naturals, Sequences, FiniteSets

CONSTANTS
    MaxStarts,     \* bound: starts of the process
    StmtMayFail    \* may a statement fail on its own (disk, lock)?

ASSUME StartsNat == MaxStarts \in Nat \ {0}
ASSUME StmtFlag  == StmtMayFail \in BOOLEAN

VARIABLES
    schema,       \* tables, indexes and columns that exist
    versions,     \* rows of schema_version
    mpc,          \* the process: down, in Migrate, up, or exited with an error
    script, stmt, \* the script Migrate is at and its next statement
    starts,
    interrupted   \* did some Migrate stop before its end, or misread the version?

migVars == <<schema, versions, mpc, script, stmt, starts, interrupted>>

-----------------------------------------------------------------------------
\* The scripts.  CREATE ... IF NOT EXISTS may be repeated, ALTER TABLE may not;
\* the last statement of a script is INSERT OR IGNORE INTO schema_version.
Create(o) == [kind |-> "create", object |-> o]
Alter(o)  == [kind |-> "alter",  object |-> o]
Record(v) == [kind |-> "record", version |-> v]

Schema001 == <<Create("groups"), Create("apps"), Create("idx_apps_route"),
               Create("transfers"), Create("idx_transfers_app_id"),
               Create("idx_transfers_status"), Create("idx_transfers_created"),
               Create("schema_version"), Record(1)>>

Schema002 == <<Alter("src_skip_tls_verify"), Alter("dst_skip_tls_verify"), Record(2)>>

\* Variant: the version is recorded before the columns are added.
Schema003RecordFirst ==
    <<Record(3), Alter("retry_max_attempts"), Alter("retry_backoff_seconds"),
      Alter("retry_count"), Alter("max_retries"), Alter("next_retry_at")>>

Schema003 == <<Alter("retry_max_attempts"), Alter("retry_backoff_seconds"),
               Alter("retry_count"), Alter("max_retries"), Alter("next_retry_at"),
               Record(3)>>

Schema004 == <<Create("idx_transfers_active_lookup"), Record(4)>>

Scripts == <<Schema001, Schema002, Schema003, Schema004>>

\* What the scripts up to v leave behind.
ObjectsOf(v) ==
    UNION {{Scripts[k][i].object : i \in {j \in 1..Len(Scripts[k]) :
                                           Scripts[k][j].kind # "record"}}
           : k \in 1..v}

AllObjects == ObjectsOf(Len(Scripts))

-----------------------------------------------------------------------------
\* A process is started, by hand or by its supervisor.
StartProcess ==
    /\ mpc \in {"down", "failed"} /\ starts < MaxStarts
    /\ mpc' = "read" /\ starts' = starts + 1
    /\ UNCHANGED <<schema, versions, script, stmt, interrupted>>

\* Variant: "if version <= k".
ReadVersionInclusive ==
    /\ mpc = "read"
    /\ \E v \in 1..Len(Scripts) :
         /\ \/ v = 1 /\ versions = {}
            \/ v \in versions /\ \A u \in versions : u <= v
         /\ mpc' = "apply" /\ script' = v /\ stmt' = 1
    /\ UNCHANGED <<schema, versions, starts, interrupted>>

\* The highest recorded version; 0 when there is none, when schema_version does
\* not exist, and when the query fails for another reason: its error is dropped.
ReadVersion ==
    /\ mpc = "read"
    /\ \E v \in 0..Len(Scripts) :
         /\ \/ v = 0 /\ versions = {} /\ interrupted' = interrupted
            \/ v \in versions /\ (\A u \in versions : u <= v) /\ interrupted' = interrupted
            \/ v = 0 /\ versions # {} /\ StmtMayFail /\ interrupted' = TRUE
         /\ mpc' = "apply"
         /\ script' = v + 1 /\ stmt' = 1
    /\ UNCHANGED <<schema, versions, starts>>

\* The statement Migrate is at.
Current == Scripts[script][stmt]

\* Variant: the end of a script is missed.
AdvanceByOne == script' = script /\ stmt' = stmt + 1

\* On to the next statement, or to the next script.
Advance ==
    IF stmt < Len(Scripts[script]) THEN script' = script /\ stmt' = stmt + 1
                                   ELSE script' = script + 1 /\ stmt' = 1

Pending == mpc = "apply" /\ script <= Len(Scripts)

\* A statement takes effect at once.
Apply ==
    /\ Pending
    /\ IF Current.kind = "record"
       THEN versions' = versions \union {Current.version} /\ schema' = schema
       ELSE /\ Current.kind = "alter" => Current.object \notin schema
            /\ schema' = schema \union {Current.object}
            /\ versions' = versions
    /\ Advance
    /\ UNCHANGED <<mpc, starts, interrupted>>

\* ALTER TABLE finds its column there: duplicate column name.  Migrate returns
\* the error and main exits.
Duplicate ==
    /\ Pending /\ Current.kind = "alter" /\ Current.object \in schema
    /\ mpc' = "failed"
    /\ UNCHANGED <<schema, versions, script, stmt, starts, interrupted>>

\* A pragma or a statement of a script fails on its own.
StatementFails ==
    /\ StmtMayFail /\ (mpc = "read" \/ Pending)
    /\ mpc' = "failed" /\ interrupted' = TRUE
    /\ UNCHANGED <<schema, versions, script, stmt, starts>>

\* Migrate returned nil: NewSQLiteStore goes on.
Migrated ==
    /\ mpc = "apply" /\ script > Len(Scripts)
    /\ mpc' = "up"
    /\ UNCHANGED <<schema, versions, script, stmt, starts, interrupted>>

\* The process is gone, at any point.
Vanish ==
    /\ mpc \in {"read", "apply", "up"}
    /\ mpc' = "down"
    /\ interrupted' = (interrupted \/ Pending)
    /\ UNCHANGED <<schema, versions, script, stmt, starts>>

\* The database is new, or was left complete by an earlier release.
MigInit ==
    /\ \E v \in 0..Len(Scripts) : schema = ObjectsOf(v) /\ versions = 1..v
    /\ mpc = "down" /\ script = 1 /\ stmt = 1 /\ starts = 0 /\ interrupted = FALSE

MigrateStep ==
    StartProcess \/ ReadVersion \/ Apply \/ Duplicate \/ StatementFails

-----------------------------------------------------------------------------
\* Properties

\* Every variable of a migration has its type.
MigTypeOK ==
    /\ schema \subseteq AllObjects
    /\ versions \subseteq 1..Len(Scripts)
    /\ mpc \in {"down", "read", "apply", "up", "failed"}
    /\ script \in 1..Len(Scripts) + 1
    /\ script <= Len(Scripts) => stmt \in 1..Len(Scripts[script])
    /\ starts \in 0..MaxStarts /\ interrupted \in BOOLEAN

\* Migrate is safe to call on every startup, from every release's database, as
\* long as no Migrate before it was cut short: no statement of it is repeated
\* that must not be.
RepeatableUnlessInterrupted == mpc = "failed" => interrupted
=============================================================================
