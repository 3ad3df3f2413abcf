SPECIFICATION Spec
CONSTANTS
  HomeTeam = "Arsenal"
  AwayTeam = "Chelsea"
  SharpBook = "pinnacle"
  FormWindow = 3
  NoScore = NoScore
  MaxGoals = 2
  LeagueAverage <- MCLeagueAverage
  HomeAdvantage <- MCHomeAdvantage
  Rho <- MCRho
  Players <- MCPlayers
  Name <- MCName
  History <- MCHistory
  Alpha <- MCAlpha
  FullMatch <- MCFullMatch
  BenchMinutes <- MCBenchMinutes
  UnconfirmedPenalty <- Half
  AbsencePenalty <- Half
  Settings <- MCSettings
  TeamNames <- MCTeamNames
  Prices <- MCPrices
  Strays <- MCStrays
  LocalGroups <- MCLocalGroups
  Models <- MCModels
  ScoreEvents <- MCScoreEvents
  Forms <- MCForms
  Reports <- MCReports
  PropMarkets <- MCPropMarkets
  Chances <- MCChances
  MarketSize = 3
  MaxForm = 4
  MaxEntries = 2
INVARIANTS
  ConfirmedIsTheIntersection
  ValueBeatsTheSharpPrice
  MisnamedMarketIsNeverPriced
  FormIgnoresPayloadOrder
  ScoreMarketsAreCoherent
  DiscountScalesTheEdge
  FullConfidenceNeedsEvidence
CHECK_DEADLOCK FALSE
