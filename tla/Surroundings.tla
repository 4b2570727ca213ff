---------------------------- MODULE Surroundings ----------------------------
(***************************************************************************)
(* What stands around the life of an image, side by side: the process of a *)
(* consumer, the jobs of an installation, the reads, the inbox, the        *)
(* accounts, the dead letter watch, and the data of one image.             *)
(*                                                                         *)
(* They share no state with one another: a behaviour is one of a single    *)
(* part, chosen at the start, with the others as they begin.               *)
(***************************************************************************)
EXTENDS ConsumerProcess, Migrations, Readiness, LibraryReads, Inbox, Accounts,
        DeadLetterWatch, ImageData

VARIABLE part       \* the part this behaviour is about

surroundingsVars ==
  <<part, allProcessVars, migrationVars, readinessVars, libraryVars, inboxVars,
    accountVars, watchVars, imageVars>>

Parts ==
  {"process", "migrations", "readiness", "library", "inbox", "accounts", "watch", "image"}

SurroundingsTypeOK ==
  /\ part \in Parts
  /\ ProcessTypeOK /\ MigrationsTypeOK /\ ReadinessTypeOK /\ ReadsTypeOK /\ InboxTypeOK
  /\ AccountsTypeOK /\ WatchTypeOK /\ ImageDataTypeOK

SurroundingsInit ==
  /\ part \in Parts
  /\ ProcessInit    /\ (part = "process" \/ broker = "up")
  /\ MigrationsInit /\ (part = "migrations" \/ (postgres /\ applied = {}))
  /\ ReadinessInit  /\ (part = "readiness" \/ (present = {} /\ buckets = {}))
  /\ ReadsInit /\ (part = "library" \/ backend = "mongo") /\ InboxInit /\ WatchInit
  /\ AccountsInit   /\ (part = "accounts" \/ \A c \in Clients : form[c] = CHOOSE f \in Form : TRUE)
  /\ ImageDataInit
  /\ part = "image" \/ (picture = (CHOOSE p \in Pictures : TRUE) /\ ~sideways /\ tags = NoExif)

SurroundingsNext ==
  \/ /\ part = "process" /\ ProcessNext
     /\ UNCHANGED <<part, migrationVars, readinessVars, libraryVars, inboxVars, accountVars,
                    watchVars, imageVars>>
  \/ /\ part = "migrations" /\ MigrationsNext
     /\ UNCHANGED <<part, allProcessVars, readinessVars, libraryVars, inboxVars, accountVars,
                    watchVars, imageVars>>
  \/ /\ part = "readiness" /\ ReadinessNext
     /\ UNCHANGED <<part, allProcessVars, migrationVars, libraryVars, inboxVars, accountVars,
                    watchVars, imageVars>>
  \/ /\ part = "library" /\ ReadsNext
     /\ UNCHANGED <<part, allProcessVars, migrationVars, readinessVars, inboxVars, accountVars,
                    watchVars, imageVars>>
  \/ /\ part = "inbox" /\ InboxNext
     /\ UNCHANGED <<part, allProcessVars, migrationVars, readinessVars, libraryVars,
                    accountVars, watchVars, imageVars>>
  \/ /\ part = "accounts" /\ AccountsNext
     /\ UNCHANGED <<part, allProcessVars, migrationVars, readinessVars, libraryVars, inboxVars,
                    watchVars, imageVars>>
  \/ /\ part = "watch" /\ WatchNext
     /\ UNCHANGED <<part, allProcessVars, migrationVars, readinessVars, libraryVars, inboxVars,
                    accountVars, imageVars>>
  \/ /\ part = "image" /\ ImageDataNext
     /\ UNCHANGED <<part, allProcessVars, migrationVars, readinessVars, libraryVars, inboxVars,
                    accountVars, watchVars>>

Alive(p) == part = p

\* The threads of a process run, and a lock that keeps being released is got: probes
\* come seconds apart, and keep coming.  A pause ends by itself, but a shutdown owes
\* nothing to it.  Signals and the broker owe nothing.
ProcessFairness ==
  /\ WF_allProcessVars(Alive("process") /\ MainStep)
  /\ WF_allProcessVars(Alive("process") /\ PauseOver /\ ~stopAsked)
  /\ \A t \in Threads : /\ WF_allProcessVars(Alive("process") /\ InQueue(t))
                        /\ SF_allProcessVars(Alive("process") /\ Enter(t))
  /\ \A p \in Probes : WF_allProcessVars(Alive("process") /\ (Probe(p) \/ Answer(p)))
  /\ SF_allProcessVars(Alive("process") /\ CloseQueue)

\* The kubelet runs the containers of the jobs, and a lock that stays free is got.
MigrationsFairness ==
  \A m \in Migrators : WF_migrationVars(Alive("migrations") /\ MigrationStep(m))

\* It runs the readiness probe too.
ReadinessFairness ==
  /\ WF_readinessVars(Alive("readiness") /\ BucketStep)
  /\ WF_readinessVars(Alive("readiness") /\ ProbeApi)

SurroundingsSpec ==
  /\ SurroundingsInit /\ [][SurroundingsNext]_surroundingsVars
  /\ ProcessFairness /\ MigrationsFairness /\ ReadinessFairness

-----------------------------------------------------------------------------
(* The liveness of a part, of the behaviours that are about it. *)

\* ConsumesAgain, of a process.
ProcessConsumesAgain == part = "process" => ConsumesAgain

\* JobsEnd, of the migration jobs.
MigrationJobsEnd == part = "migrations" => JobsEnd

\* RerunIsHarmless, of the bucket job.
BucketRerunIsHarmless == part = "readiness" => RerunIsHarmless

\* ReadyAtLast, of an installation.
InstallationReadyAtLast == part = "readiness" => ReadyAtLast

=============================================================================
