------------------------------- MODULE Storage -------------------------------
(***************************************************************************)
(* NewSQLiteStore and Close (internal/storage/store.go) through several    *)
(* lives of the process: Migrate brings the schema up to date, then the    *)
(* batch writer serves, until the store is closed or the process dies.     *)
(***************************************************************************)
EXTENDS Migrations, BatchWriter

storeVars == <<migVars, bwVars>>

\* Migrate returned nil and the batch writer is started.
NewSQLiteStore == Migrated /\ Open

Migrating == MigrateStep /\ UNCHANGED bwVars

Serving ==
    /\ (\E r \in Requests : Send(r)) \/ Close \/ WriterStep
    /\ UNCHANGED migVars

\* The process dies while it migrates or while it serves.
Killed == Vanish /\ IF mpc = "up" THEN Crash ELSE UNCHANGED bwVars

\* After close: the process exits by itself.
Closed == Vanish /\ Exit

\* The bound on starts is reached and no process is left.
Over == mpc \in {"down", "failed"} /\ starts = MaxStarts /\ UNCHANGED storeVars

StoreInit == MigInit /\ BWInit

StoreNext == NewSQLiteStore \/ Migrating \/ Serving \/ Killed \/ Closed \/ Over

\* The writer's goroutine runs, its ticker ticks, select does not ignore a case
\* for ever, and a process whose writer has ended exits.  Nobody has to start,
\* stop or kill it.
StoreSpec ==
    /\ StoreInit /\ [][StoreNext]_storeVars
    /\ WF_storeVars(WriterStep /\ UNCHANGED migVars)
    /\ SF_storeVars(Tick /\ UNCHANGED migVars)
    /\ SF_storeVars(StopCase /\ UNCHANGED migVars)
    /\ WF_storeVars(Closed)

-----------------------------------------------------------------------------
\* Properties

\* The variables of both parts have their types.
StoreTypeOK == MigTypeOK /\ BWTypeOK

\* Whatever life of the process it is, and however the ones before it ended, a
\* write is only executed on a schema that has every column its SQL names.
WritesMeetTheirColumns == wpc # "off" => schema = AllObjects
=============================================================================
