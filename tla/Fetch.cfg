CONSTANTS
  Nothing = Nothing
  LoopBound = 5
  MaxListPages = 3
  FragmentSize = 2
  BatchSize = 2
  PageSize = 2
  MaxRounds = 3
  NameAttempts = 2
  MaxForces = 2
  MaxParts = 1
  Retries = 3
  Timeout = 10
  Delay = 1
  Interval = 1
  MaxRuns = 3
  MaxTroubles = 1
  Fingerprinted = {"decca"}
  Duplicating = {"rco", "imslp", "imslp_works", "imslp_recordings"}
  Letters <- MCLetters
  Years <- MCYears
  NotAPerformer <- MCNotAPerformer
  Generic <- MCGeneric
  EnsembleNames <- MCEnsembleNames
  GroupNames <- MCGroupNames
  Intermission <- MCIntermission
  Continuations <- MCContinuations
  FullNames <- MCFullNames
  CategoryFor <- MCCategoryFor
  MembersOf <- MCMembersOf
  NonMusicTypes <- MCNonMusicTypes
  GroupRoles <- MCGroupRoles
  Unnamed <- MCUnnamed
  Production <- MCProduction
  Authoring <- MCAuthoring
  NotPerforming <- MCNotPerforming
  NotADiscipline <- MCNotADiscipline
  Floors <- MCFloors
  PlaceTypes <- MCPlaceTypes
  TypePriority <- MCTypePriority
  TypeFromName <- MCTypeFromName
  Expand <- MCExpand
  EnsembleCategories <- MCEnsembleCategories
  Sections <- MCSections
  Qualifiers <- MCQualifiers
  Synonyms <- MCSynonyms
  Professions <- MCProfessions
  WorkRoles <- MCWorkRoles
  ProductionRoles <- MCProductionRoles
  PerformanceRoles <- MCPerformanceRoles
  Families <- MCFamilies
  Sites <- MCSites
  Garbled <- MCGarbled
  StaticSources <- MCStaticSources
  Reactions <- MCReactions

SPECIFICATION FetchesSpec

INVARIANTS
  OneRecordPerId
  NoPageHoldsTheCrawl

PROPERTIES
  NextRunIsWhole
  GrowthIsSeen
  IdsKeepTheirRecord

CHECK_DEADLOCK FALSE
