SPECIFICATION Spec
CONSTANTS
  NoRow = NoRow
  m1 = m1
  m2 = m2
  p1 = p1
  p2 = p2
  past = past
  sharp = sharp
  local = local
  c0 = c0
  c1 = c1
  reg = reg
  h2h = h2h
  ou15 = ou15
  ou45 = ou45
  Sessions = {s1}
  Rows <- MCRows
  Values <- MCValues
  Entries <- MCEntries
  Serialized = FALSE
  Stores <- FlowStores
  Archives <- FlowArchives
  Matches = {m1, m2}
  Players = {p1, p2}
  Past = past
  Sharp = sharp
  Local = local
  Kickoffs = {0, 1, 2, 3}
  Now = 1
  Played = 0
  Registered = reg
  Clubs = {c0, c1}
  Club <- MCClub
  Markets = {h2h, ou15, ou45}
  SharpMarket = h2h
  Unpriced = {ou45}
  Modes = {"CONFIRMATION", "INDEPENDENT"}
  SharpAnswers <- FlowSharp
  LocalAnswers <- FlowLocal
  PropAnswers <- FlowProps
  Lineups <- FlowLineups
  Injuries <- FlowInjuries
  RecentAnswers <- FlowRecent
  Kinds = {"run", "query"}
INVARIANTS
  TypeOK
  BetsFollowQuotes
  PropsFollowStats
  ReturnedBetsAreSaved
  LedgerInKickoffOrder
  LocalQuotesRestoreKickoff
PROPERTIES
  KeepsRunContract
