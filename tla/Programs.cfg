SPECIFICATION AllSpec
CONSTANTS
  None = None
  Torn = Torn
  Denied = Denied
  Files <- ThreeFiles
  Content <- TwoContents
  Rules <- OneRule
  MaxTagDepth = 2
  Foreign = {mail}
  Batch = 1
  MaxAccidents = 1
  MaxPlans = 1
  Values = {0, 1, 2, 3}
  Ages = {0, 1}
  Factors = {2, 3}
  Floors = {0, 3}
  MaxIssues = 1
  PushLimit = 1
  MaxMounts = 1
  InterestingUsed = 80
  TokenWarnDays = 30
  TrendDays = 2
  Reports <- MCReports
  Replies <- MCReplies
  Programs = {"backup", "bootstrap"}
  Own <- OwnEntries
  Retired <- RetiredEntries
  PageEntries = {"mine"}
  Others = {"phone"}
  Folders = {"photos", "games", "mail"}
  Archive = {"mail"}
  Excluded = {"games"}
  ValidHosts = {"nuc", "mljr"}
  Composed = {"web", "mail"}
  Groups = {"nuc", "main"}
  Catalogs <- MCCatalogs
  Jobs <- MCJobs
  Cap = 2
  PageRows = 1
  PageRecent = 2
  ShownHosts = {"nuc"}
  MaxJobs = 3
  MaxEntries = 4
  MaxFiles = 3
  MaxRestarts = 1
  RunsPerDay = 2
  Tiers <- TwoTiers
  Whole = "whole"
  Order <- TwoServices
  Hooked = {"db"}
  Dated = {"db"}
  LastDay = 2
  MaxFaults = 2
  World <- MCWorld
  Faults <- MCFaults
  MaxBroken = 2
  AllHosts = {"nuc", "nas", "wd-mycloud", "pi"}
  KnownPaths <- MCPaths
  RetiredMounts <- MCMounts
  SessionUnits = {"session-1.scope"}
  Ephemeral = {"tmp"}
  Windows <- MCWindows
  Hour = 1
  LineLimit = 3
  MinSignatureCount = 2
  MaxSignatures = 2
  MaxContainers = 2
  HourThreshold = 3
  DayLength = 24
  LookbackDays = 1
  OwnedDomains = {"mljr.eu"}
  ExcludedClusters = {"test"}
  SignificantCluster = 1
  ScanStaleAfter = 7
  Nights <- MCNights
  Entries <- MCEntries
  PageHosts <- MCPageHosts
  Mentions <- MCMentions
CHECK_DEADLOCK FALSE
INVARIANTS
  RecordedIsSomewhere
  RepeatsAreAccidents
  BestCopyIsPlanned
  SpikeWidensCoverage
  DeadMailPathIsPushed
  StoryNamesOnlyFacts
  BothBodiesNameAll
  SavedEntriesSurvive
  EndMirrors
  HistoryIsTheLatest
  ConvertedInOrder
  
  ViewsAgree
  HistoryReachesBack
  LossIsAnnounced
PROPERTIES
  ApplyEnds
  
  SharesAreKept
