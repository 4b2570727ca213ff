-------------------------- MODULE SurroundingsProofs --------------------------
(***************************************************************************)
(* A behaviour of Surroundings is, for each part, one of that part: what   *)
(* is proved about the parts holds of them side by side.                   *)
(***************************************************************************)
EXTENDS Surroundings, ProcessProofs, MigrationsProofs, ReadsProofs, PartsProofs

\* The steps of each part are its own, or leave it alone.
LEMMA EveryPart ==
  SurroundingsSpec =>
    /\ ProcessSpec /\ MigrationsSpec /\ ReadinessSpec /\ ReadsSpec
    /\ InboxSpec /\ AccountsSpec /\ WatchSpec /\ ImageDataSpec
<1>1. SurroundingsInit =>
        /\ ProcessInit /\ MigrationsInit /\ ReadinessInit /\ ReadsInit
        /\ InboxInit /\ AccountsInit /\ WatchInit /\ ImageDataInit
  BY DEF SurroundingsInit
<1>2. [SurroundingsNext]_surroundingsVars =>
        /\ [ProcessNext]_allProcessVars /\ [MigrationsNext]_migrationVars
        /\ [ReadinessNext]_readinessVars /\ [ReadsNext]_libraryVars
        /\ [InboxNext]_inboxVars /\ [AccountsNext]_accountVars
        /\ [WatchNext]_watchVars /\ [ImageDataNext]_imageVars
  BY DEF SurroundingsNext, surroundingsVars
<1> QED
  BY <1>1, <1>2, PTL
  DEF SurroundingsSpec, ProcessSpec, MigrationsSpec, ReadinessSpec, ReadsSpec, InboxSpec,
      AccountsSpec, WatchSpec, ImageDataSpec

\* Types of everything around the platform, and the part a behaviour is about.
THEOREM SurroundingsTypesHold == SurroundingsSpec => []SurroundingsTypeOK
<1>1. SurroundingsSpec => [](part \in Parts)
  <2>1. SurroundingsInit => part \in Parts
    BY DEF SurroundingsInit
  <2>2. part \in Parts /\ [SurroundingsNext]_surroundingsVars => (part \in Parts)'
    BY DEF SurroundingsNext, surroundingsVars, Parts
  <2> QED
    BY <2>1, <2>2, PTL DEF SurroundingsSpec
<1>2. /\ part \in Parts /\ ProcessTypeOK /\ MigrationsTypeOK /\ ReadinessTypeOK /\ ReadsTypeOK
      /\ InboxTypeOK /\ AccountsTypeOK /\ WatchTypeOK /\ ImageDataTypeOK
      => SurroundingsTypeOK
  BY DEF SurroundingsTypeOK
<1> QED
  BY <1>1, <1>2, EveryPart, ProcessTypesHold, MigrationsTypesHold, ReadinessTypesHold,
     ReadsTypesHold, InboxTypesHold, AccountsTypesHold, WatchTypesHold, ImageDataTypesHold, PTL

\* What the parts promise, of them all together: whatever holds of a part by itself
\* holds of the behaviours the checker runs.
THEOREM PartsKeepTheirPromises ==
  SurroundingsSpec =>
    /\ []OneThreadOnTheChannel /\ []RaisesOnlyInTrouble /\ []ConsumingIsTrue
    /\ PublishesAsPromised /\ NothingAbandoned
    /\ []SchemaIsWhole /\ []NoFileRunsTwice /\ []DoneIsUpToDate
    /\ []SearchFindsAll /\ []ListsOnlyMatches /\ []PagesAddUp /\ []ShownDoneIsWhole
    /\ []NewIsNeverMissed /\ []RegistrantsOwnTheirAccount /\ []QuietMeansEmpty
    /\ []VariantsKeepThePicture /\ []TagsAreKept
BY EveryPart, OneThreadAtATime, RaisesOnlyForCause, FlagMeansWork,
   PublishesAlwaysAsPromised, MessageIsFinished,
   SchemaAlwaysWhole, FilesRunOnce, DoneAlwaysUpToDate,
   SearchAlwaysFindsAll, ListsAlwaysMatch, PagesAlwaysAddUp, DoneAlwaysShownWhole,
   NothingNewIsMissed, RegistrantsAlwaysOwn, QuietAlwaysMeansEmpty,
   PictureAlwaysKept, TagsAlwaysKept

=============================================================================
