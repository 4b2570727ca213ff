--------------------------- MODULE MigrationsProofs ---------------------------
(***************************************************************************)
(* The schema is whole, no file runs twice and a job that ended well left  *)
(* everything applied: for every number of jobs, of releases and of files, *)
(* and for every outage.                                                   *)
(*                                                                         *)
(* What makes the three inductive is that the lock covers the SELECT, the  *)
(* files and the commit: what its holder has read is what is committed.    *)
(***************************************************************************)
EXTENDS Migrations, TLAPS

\* Whoever is past the lock holds it.
LockCovers == \A m \in Migrators : migPc[m] \in {"read", "apply", "close"} => migrationLock = m

\* An open transaction is about the holder's missing files; what it read still holds.
HolderKnows ==
  \A m \in Migrators :
    /\ migPc[m] = "apply" => seen[m] = applied
    /\ pending[m] # {} => migPc[m] = "apply"
    /\ pending[m] \subseteq Files(m)

MigrationsInv ==
  /\ MigrationsTypeOK /\ LockCovers /\ HolderKnows
  /\ SchemaIsWhole /\ NoFileRunsTwice /\ DoneIsUpToDate

LEMMA MigrationsStart == MigrationsInit => MigrationsInv
<1> SUFFICES ASSUME MigrationsInit PROVE MigrationsInv
  OBVIOUS
<1> USE MigrationsAssumption DEF MigrationsInit, Files
<1>1. MigrationsTypeOK
  <2>1. applied \subseteq File
    BY DEF Schemas, File
  <2> QED
    BY <2>1 DEF MigrationsTypeOK, MigPc
<1>2. LockCovers /\ HolderKnows
  BY DEF LockCovers, HolderKnows
<1>3. SchemaIsWhole /\ NoFileRunsTwice /\ DoneIsUpToDate
  BY DEF SchemaIsWhole, NoFileRunsTwice, DoneIsUpToDate
<1> QED
  BY <1>1, <1>2, <1>3 DEF MigrationsInv

\* One release after another is the longer of the two.
LEMMA OverAnother ==
  ASSUME applied \in Schemas, NEW m \in Migrators
  PROVE  applied \cup Files(m) \in Schemas
<1>1. CASE applied = {}
  BY <1>1 DEF Schemas
<1>2. ASSUME NEW o \in Migrators, applied = Files(o) PROVE applied \cup Files(m) \in Schemas
  <2>1. Release[o] \in Nat /\ Release[m] \in Nat
    BY MigrationsAssumption
  <2>2. Files(o) \cup Files(m) \in {Files(o), Files(m)}
    BY <2>1 DEF Files
  <2> QED
    BY <1>2, <2>2 DEF Schemas
<1> QED
  BY <1>1, <1>2 DEF Schemas

LEMMA MigrationsKeep == MigrationsInv /\ [MigrationsNext]_migrationVars => MigrationsInv'
<1> SUFFICES ASSUME MigrationsInv, [MigrationsNext]_migrationVars PROVE MigrationsInv'
  OBVIOUS
<1> USE MigrationsAssumption DEF MigrationsInv, MigGoto
<1> DEFINE Safe == SchemaIsWhole /\ NoFileRunsTwice /\ DoneIsUpToDate
           All == LockCovers /\ HolderKnows /\ Safe
<1> USE DEF MigrationsTypeOK
<1>1. ASSUME NEW m \in Migrators, ConnectToMigrate(m) PROVE MigrationsInv'
  <2>1. MigrationsTypeOK'
    BY <1>1 DEF ConnectToMigrate, MigPc
  <2>2. All'
    BY <1>1 DEF ConnectToMigrate, LockCovers, HolderKnows, SchemaIsWhole, NoFileRunsTwice,
                DoneIsUpToDate, Missing
  <2> QED
    BY <2>1, <2>2
<1>2. ASSUME NEW m \in Migrators, TakeMigrationLock(m) PROVE MigrationsInv'
  <2>1. MigrationsTypeOK'
    BY <1>2 DEF TakeMigrationLock, MigPc
  <2>2. All'
    BY <1>2 DEF TakeMigrationLock, LockCovers, HolderKnows, SchemaIsWhole, NoFileRunsTwice,
                DoneIsUpToDate, Missing
  <2> QED
    BY <2>1, <2>2
<1>3. ASSUME NEW m \in Migrators, ReadApplied(m) PROVE MigrationsInv'
  <2>1. MigrationsTypeOK'
    BY <1>3 DEF ReadApplied, MigPc
  <2>2. LockCovers' /\ HolderKnows' /\ SchemaIsWhole' /\ DoneIsUpToDate'
    BY <1>3 DEF ReadApplied, LockCovers, HolderKnows, SchemaIsWhole, DoneIsUpToDate
  <2>3. NoFileRunsTwice'
    BY <1>3, <2>2 DEF ReadApplied, LockCovers, HolderKnows, NoFileRunsTwice, Missing
  <2> QED
    BY <2>1, <2>2, <2>3
<1>4. ASSUME NEW m \in Migrators, ApplyFile(m) PROVE MigrationsInv'
  <2>1. PICK f \in Missing(m) : pending' = [pending EXCEPT ![m] = @ \cup {f}]
    BY <1>4 DEF ApplyFile
  <2>2. f \in Files(m) /\ f \in File
    BY DEF Missing, File
  <2>3. MigrationsTypeOK'
    BY <1>4, <2>1, <2>2 DEF ApplyFile
  <2>4. LockCovers' /\ HolderKnows' /\ SchemaIsWhole' /\ DoneIsUpToDate'
    BY <1>4, <2>1, <2>2 DEF ApplyFile, LockCovers, HolderKnows, SchemaIsWhole, DoneIsUpToDate
  <2>5. NoFileRunsTwice'
    BY <1>4, <2>4 DEF ApplyFile, LockCovers, HolderKnows, NoFileRunsTwice, Missing
  <2> QED
    BY <2>3, <2>4, <2>5
<1>5. ASSUME NEW m \in Migrators, CommitFiles(m) PROVE MigrationsInv'
  <2>1. applied' = applied \cup Files(m)
    BY <1>5 DEF CommitFiles, Missing, HolderKnows
  <2>2. SchemaIsWhole'
    BY <2>1, OverAnother DEF SchemaIsWhole, Schemas
  <2>3. MigrationsTypeOK'
    <3>1. Files(m) \subseteq File
      BY DEF File
    <3> QED
      BY <1>5, <2>1, <3>1 DEF CommitFiles, MigPc
  <2>4. LockCovers' /\ HolderKnows'
    BY <1>5 DEF CommitFiles, LockCovers, HolderKnows
  <2>5. NoFileRunsTwice'
    BY <1>5, <2>4 DEF CommitFiles, LockCovers, HolderKnows, NoFileRunsTwice, Missing
  <2>6. DoneIsUpToDate'
    BY <1>5, <2>1 DEF CommitFiles, DoneIsUpToDate
  <2> QED
    BY <2>2, <2>3, <2>4, <2>5, <2>6
<1>6. ASSUME NEW m \in Migrators, NEW pc \in MigPc \ (InSession \cup {"start"}), EndSession(m, pc),
             applied' = applied, pc = "done" => migPc[m] = "close"
      PROVE  migPc' \in [Migrators -> MigPc] /\ All'
  <2>1. LockCovers' /\ HolderKnows'
    BY <1>6 DEF EndSession, LockCovers, HolderKnows, MigPc, InSession
  <2>2. SchemaIsWhole' /\ DoneIsUpToDate'
    BY <1>6 DEF EndSession, SchemaIsWhole, Schemas, DoneIsUpToDate, MigPc, InSession
  <2>3. NoFileRunsTwice'
    BY <1>6, <2>1 DEF EndSession, NoFileRunsTwice, HolderKnows, LockCovers, Missing, MigPc, InSession
  <2> QED
    BY <1>6, <2>1, <2>2, <2>3 DEF EndSession
<1>7. ASSUME NEW m \in Migrators, CloseMigration(m) PROVE MigrationsInv'
  <2>1. All' /\ migPc' \in [Migrators -> MigPc]
    BY <1>6, <1>7 DEF CloseMigration, MigPc, InSession
  <2>2. MigrationsTypeOK'
    BY <1>7, <2>1 DEF CloseMigration, EndSession
  <2> QED
    BY <2>1, <2>2
<1>8. ASSUME NEW m \in Migrators, StartAgain(m) PROVE MigrationsInv'
  <2>1. MigrationsTypeOK'
    BY <1>8 DEF StartAgain, MigPc
  <2>2. All'
    BY <1>8 DEF StartAgain, LockCovers, HolderKnows, SchemaIsWhole, NoFileRunsTwice,
                DoneIsUpToDate, Missing
  <2> QED
    BY <2>1, <2>2
<1>9. ASSUME NEW m \in Migrators, MigratorDies(m) PROVE MigrationsInv'
  <2>1. PICK pc \in {"failed", "gaveUp"} : EndSession(m, pc)
    BY <1>9 DEF MigratorDies
  <2>2. All' /\ migPc' \in [Migrators -> MigPc]
    BY <1>6, <1>9, <2>1 DEF MigratorDies, MigPc, InSession
  <2>3. MigrationsTypeOK'
    BY <1>9, <2>1, <2>2 DEF MigratorDies, EndSession
  <2> QED
    BY <2>2, <2>3
<1>10. CASE PostgresStops
  <2>1. MigrationsTypeOK'
    <3>1. postgres' \in BOOLEAN
      BY <1>10, Zenon DEF PostgresStops
    <3>2. outages' \in 0 .. MaxOutages
      <4>1. outages \in 0 .. MaxOutages /\ MaxOutages \in Nat
        BY Zenon
      <4>2. outages < MaxOutages /\ outages' = outages + 1
        BY <1>10, Zenon DEF PostgresStops
      <4> HIDE DEF MigrationsInv, MigrationsTypeOK
      <4> QED
        BY <4>1, <4>2
    <3>3. migPc' \in [Migrators -> MigPc]
      BY <1>10 DEF PostgresStops, MigPc, InSession
    <3>4. seen' \in [Migrators -> SUBSET File] /\ pending' \in [Migrators -> SUBSET File]
      BY <1>10 DEF PostgresStops
    <3> QED
      BY <1>10, <3>1, <3>2, <3>3, <3>4 DEF PostgresStops
  <2>2. All'
    BY <1>10 DEF PostgresStops, LockCovers, HolderKnows, SchemaIsWhole, Schemas,
                 NoFileRunsTwice, DoneIsUpToDate, InSession
  <2> QED
    BY <2>1, <2>2
<1>11. CASE PostgresStarts \/ UNCHANGED migrationVars
  BY <1>11 DEF PostgresStarts, migrationVars, LockCovers, HolderKnows, SchemaIsWhole,
               NoFileRunsTwice, DoneIsUpToDate, Missing
<1> QED
  BY <1>1, <1>2, <1>3, <1>4, <1>5, <1>7, <1>8, <1>9, <1>10, <1>11
     DEF MigrationsNext, MigrationStep

LEMMA MigrationsAlways == MigrationsSpec => []MigrationsInv
  BY MigrationsStart, MigrationsKeep, PTL DEF MigrationsSpec

\* Types of the migration jobs.
THEOREM MigrationsTypesHold == MigrationsSpec => []MigrationsTypeOK
<1>1. MigrationsInv => MigrationsTypeOK
  BY DEF MigrationsInv
<1> QED
  BY <1>1, MigrationsAlways, PTL

\* "O arriva il lotto intero o il database resta intatto, mai migrato a metà"
\* (migrations.py, run_migrations).
THEOREM SchemaAlwaysWhole == MigrationsSpec => []SchemaIsWhole
<1>1. MigrationsInv => SchemaIsWhole
  BY DEF MigrationsInv
<1> QED
  BY <1>1, MigrationsAlways, PTL

\* No file is run by two jobs, one after the other or together (migrations.py,
\* run_migrations: the lock comes before the SELECT).
THEOREM FilesRunOnce == MigrationsSpec => []NoFileRunsTwice
<1>1. MigrationsInv => NoFileRunsTwice
  BY DEF MigrationsInv
<1> QED
  BY <1>1, MigrationsAlways, PTL

\* A job that ended well leaves every file it knows applied (migrations.py,
\* run_migrations).
THEOREM DoneAlwaysUpToDate == MigrationsSpec => []DoneIsUpToDate
<1>1. MigrationsInv => DoneIsUpToDate
  BY DEF MigrationsInv
<1> QED
  BY <1>1, MigrationsAlways, PTL

=============================================================================
