------------------------------ MODULE Migrations ------------------------------
(***************************************************************************)
(* The pods of `app.migrate` (app/db/migrations.py) over one PostgreSQL.   *)
(*                                                                         *)
(* Two of them run together when a release is upgraded: Helm deletes the   *)
(* old job and creates the new one, which may know more files.             *)
(***************************************************************************)
EXTENDS Naturals

CONSTANTS
  Migrators,        \* the pods of app.migrate
  Release,          \* how many migration files each of them knows
  NoMigrator,       \* no pod
  BackoffLimit,     \* times Kubernetes starts a failed container again
  MaxOutages        \* bound: outages and killed pods

ASSUME MigrationsAssumption ==
  /\ Release \in [Migrators -> Nat]
  /\ NoMigrator \notin Migrators
  /\ BackoffLimit \in Nat /\ MaxOutages \in Nat

VARIABLES
  postgres,       \* PostgreSQL answers
  outages,        \* outages so far
  migrationLock,  \* the session that holds the advisory lock
  applied,        \* schema_migrations, as committed: files are known by their place
  migPc,          \* what each migration pod does next
  seen,           \* what it read of schema_migrations
  pending,        \* the files its open transaction has applied
  starts          \* times its container was started again

migrationVars == <<postgres, outages, migrationLock, applied, migPc, seen, pending, starts>>

Files(m) == 1 .. Release[m]

MigPc == {"start", "lock", "read", "apply", "close", "failed", "done", "gaveUp"}

\* A session of this pod is open.
InSession == {"lock", "read", "apply", "close"}

\* The places of the files, and the schemas a release leaves behind.
File == UNION {Files(m) : m \in Migrators}

Schemas == {{}} \cup {Files(m) : m \in Migrators}

MigrationsTypeOK ==
  /\ postgres \in BOOLEAN
  /\ outages \in 0 .. MaxOutages
  /\ migrationLock \in Migrators \cup {NoMigrator}
  /\ applied \subseteq File
  /\ migPc \in [Migrators -> MigPc]
  /\ seen \in [Migrators -> SUBSET File]
  /\ pending \in [Migrators -> SUBSET File]
  /\ starts \in [Migrators -> 0 .. BackoffLimit]

\* A first installation, or one over the tables of an older release.
MigrationsInit ==
  /\ postgres \in BOOLEAN
  /\ outages = 0
  /\ migrationLock = NoMigrator
  /\ applied \in Schemas
  /\ migPc = [m \in Migrators |-> "start"]
  /\ seen = [m \in Migrators |-> {}]
  /\ pending = [m \in Migrators |-> {}]
  /\ starts = [m \in Migrators |-> 0]

MigGoto(m, pc) == migPc' = [migPc EXCEPT ![m] = pc]

-----------------------------------------------------------------------------
(* run_migrations. *)

\* psycopg.connect: an exception ends the container when nobody answers.
ConnectToMigrate(m) ==
  /\ migPc[m] = "start"
  /\ MigGoto(m, IF postgres THEN "lock" ELSE "failed")
  /\ UNCHANGED <<postgres, outages, migrationLock, applied, seen, pending, starts>>

\* Mutation: the migration runs without the lock.
LockNothing(m) ==
  /\ migPc[m] = "lock"
  /\ MigGoto(m, "read")
  /\ UNCHANGED <<postgres, outages, migrationLock, applied, seen, pending, starts>>

\* pg_advisory_lock waits for the session that has it.
TakeMigrationLock(m) ==
  /\ migPc[m] = "lock" /\ migrationLock = NoMigrator
  /\ migrationLock' = m
  /\ MigGoto(m, "read")
  /\ UNCHANGED <<postgres, outages, applied, seen, pending, starts>>

\* CREATE TABLE IF NOT EXISTS and the SELECT, which sees what is committed by now.
ReadApplied(m) ==
  /\ migPc[m] = "read"
  /\ seen' = [seen EXCEPT ![m] = applied]
  /\ MigGoto(m, "apply")
  /\ UNCHANGED <<postgres, outages, migrationLock, applied, pending, starts>>

Missing(m) == Files(m) \ (seen[m] \cup pending[m])

\* Mutation: every file is a transaction of its own.
ApplyAndCommit(m) ==
  /\ migPc[m] = "apply"
  /\ \E f \in Missing(m) :
       /\ \A g \in Missing(m) : f <= g
       /\ seen' = [seen EXCEPT ![m] = @ \cup {f}]
       /\ applied' = applied \cup {f}
  /\ UNCHANGED <<postgres, outages, migrationLock, migPc, pending, starts>>

\* The next file in order of name and its row, in the open transaction.  A file
\* already committed collides with its own tables: the job fails.
ApplyFile(m) ==
  /\ migPc[m] = "apply"
  /\ \E f \in Missing(m) :
       /\ \A g \in Missing(m) : f <= g
       /\ f \notin applied
       /\ \A o \in Migrators : f \notin pending[o]
       /\ pending' = [pending EXCEPT ![m] = @ \cup {f}]
  /\ UNCHANGED <<postgres, outages, migrationLock, applied, migPc, seen, starts>>

\* Mutation: a schema that has any file is taken for complete.
CommitUnlessEmpty(m) ==
  /\ migPc[m] = "apply" /\ (Missing(m) = {} \/ seen[m] # {})
  /\ applied' = applied \cup pending[m]
  /\ pending' = [pending EXCEPT ![m] = {}]
  /\ MigGoto(m, "close")
  /\ UNCHANGED <<postgres, outages, migrationLock, seen, starts>>

CommitFiles(m) ==
  /\ migPc[m] = "apply" /\ Missing(m) = {}
  /\ applied' = applied \cup pending[m]
  /\ pending' = [pending EXCEPT ![m] = {}]
  /\ MigGoto(m, "close")
  /\ UNCHANGED <<postgres, outages, migrationLock, seen, starts>>

\* Mutation: the lock is not the session's, and outlives it.
EndSessionKeepingLock(m, pc) ==
  /\ MigGoto(m, pc)
  /\ pending' = [pending EXCEPT ![m] = {}]
  /\ seen' = [seen EXCEPT ![m] = {}]
  /\ UNCHANGED migrationLock

\* The connection closes; the lock lasts as long as its session.
EndSession(m, pc) ==
  /\ MigGoto(m, pc)
  /\ migrationLock' = IF migrationLock = m THEN NoMigrator ELSE migrationLock
  /\ pending' = [pending EXCEPT ![m] = {}]
  /\ seen' = [seen EXCEPT ![m] = {}]

CloseMigration(m) ==
  /\ migPc[m] = "close"
  /\ EndSession(m, "done")
  /\ UNCHANGED <<postgres, outages, applied, starts>>

\* restartPolicy OnFailure, up to backoffLimit.
StartAgain(m) ==
  /\ migPc[m] = "failed"
  /\ IF starts[m] < BackoffLimit
     THEN MigGoto(m, "start") /\ starts' = [starts EXCEPT ![m] = @ + 1]
     ELSE MigGoto(m, "gaveUp") /\ UNCHANGED starts
  /\ UNCHANGED <<postgres, outages, migrationLock, applied, seen, pending>>

\* The pod is killed: the node goes, or Helm deletes its job.
MigratorDies(m) ==
  /\ migPc[m] \in InSession /\ outages < MaxOutages
  /\ outages' = outages + 1
  /\ \E pc \in {"failed", "gaveUp"} : EndSession(m, pc)
  /\ UNCHANGED <<postgres, applied, starts>>

-----------------------------------------------------------------------------
(* The server: every session ends with it. *)

PostgresStops ==
  /\ postgres /\ outages < MaxOutages
  /\ postgres' = FALSE /\ outages' = outages + 1
  /\ migrationLock' = NoMigrator
  /\ migPc' = [m \in Migrators |-> IF migPc[m] \in InSession THEN "failed" ELSE migPc[m]]
  /\ pending' = [m \in Migrators |-> {}]
  /\ seen' = [m \in Migrators |-> {}]
  /\ UNCHANGED <<applied, starts>>

PostgresStarts ==
  /\ ~postgres /\ postgres' = TRUE
  /\ UNCHANGED <<outages, migrationLock, applied, migPc, seen, pending, starts>>

-----------------------------------------------------------------------------

MigrationStep(m) ==
  \/ ConnectToMigrate(m) \/ TakeMigrationLock(m) \/ ReadApplied(m) \/ ApplyFile(m)
  \/ CommitFiles(m) \/ CloseMigration(m) \/ StartAgain(m)

MigrationsNext ==
  \/ \E m \in Migrators : MigrationStep(m) \/ MigratorDies(m)
  \/ PostgresStops \/ PostgresStarts

MigrationsSpec == MigrationsInit /\ [][MigrationsNext]_migrationVars

-----------------------------------------------------------------------------

\* The schema is that of some release, whole, or nothing: "o arriva il lotto intero
\* o il database resta intatto, mai migrato a metà" (migrations.py), whatever job
\* dies or runs beside another.
SchemaIsWhole == applied \in Schemas

\* No job is about to run a file that another one has run or is running: the lock
\* comes before the SELECT, and lasts past the commit (migrations.py, run_migrations).
NoFileRunsTwice ==
  \A m \in Migrators : migPc[m] = "apply" =>
    /\ Missing(m) \cap applied = {}
    /\ \A o \in Migrators \ {m} : Missing(m) \cap pending[o] = {}

\* A job that ended well leaves every file it knows applied, over any older or newer
\* schema it found (migrations.py, run_migrations).
DoneIsUpToDate ==
  \A m \in Migrators : migPc[m] \in {"close", "done"} => Files(m) \subseteq applied

\* Every migration job ends, done or out of starts: the lock of a pod that died, or
\* that has finished, keeps nobody waiting (migrations.py, pg_advisory_lock).
JobsEnd == \A m \in Migrators : <>(migPc[m] \in {"done", "gaveUp"})

=============================================================================
