SPECIFICATION FairSpec
INVARIANTS
  TypeOK
  RequestsAsMeant
  ListsAreWhole
  ReadAnswerExact
  ClusterAnswersWithInfo
  StatsTrue
  ListingIsSelection
  RawIsTheDetail
  DetailListsDocument
  SummaryNearTruth
PROPERTIES
  CallReturns
CONSTANTS
  Registry <- MCRegistry
  Scenarios <- MCScenarios
  MaxResultRows = 2
  Kilo = 3
  Kibi = 2
  Minute = 3
  Day = 2
  ExactInt = 4
  MaxInt64 = 7
CHECK_DEADLOCK FALSE
